---- MODULE Spec2Model ----
(***************************************************************************)
(* Model of the epd-dither core: the error-diffusion engine                *)
(* (dither/diffuse.rs, dither/diffusion_matrix.rs), the line projector     *)
(* (barycentric/line.rs) and the brute-force decomposer                    *)
(* (decomposer_bruteforce.rs).                                             *)
(*                                                                         *)
(* Numbers of the generic field type T are exact rationals <<n, d>> in     *)
(* lowest terms with d > 0; <<0, 0>> stands for the result of a division   *)
(* by zero.                                                                *)
(***************************************************************************)
EXTENDS Integers, Sequences, FiniteSets, TLC

VARIABLES
    \* ---- diffuse_dither ------------------------------------------------
    pc,             \* position in diffuse_dither: "entry", "rows", "cols", "done", "panic"
    matrix,         \* the DiffusionMatrix argument (name of the kernel)
    serpentine,     \* the serpentine argument
    inout,          \* the image: [w, h, source plane, target plane]
    width, height,  \* locals of diffuse_dither
    error_divisor, errors_height,
    errors,         \* the rolling buffer, a function on 0 .. len-1
    y,              \* the row of the outer for loop
    range,          \* the RangeWithDir of the inner for loop
    calls,          \* instrumentation: one record per executed loop body
    \* ---- LineProjector -------------------------------------------------
    lp,             \* the projector under test (or Unbuilt)
    lres,           \* the last call on it and what it returned
    \* ---- DecomposerBruteforce ------------------------------------------
    colors,         \* the palette handed to DecomposerBruteforce::new
    dec,            \* what new returned (or Unbuilt)
    bres,           \* the last decompose call and what it returned
    \* ---- OctahedronDecomposer ------------------------------------------
    ocolors,        \* the palette handed to OctahedronDecomposer::new
    odec,           \* what new returned (or Unbuilt)
    ores,           \* the last call on it, what its collaborators answered
                    \* and what it returned
    \* ---- noise.rs ------------------------------------------------------
    nres,           \* the last call of a noise function and what it returned
    \* ---- bin/dither.rs --------------------------------------------------
    qres            \* the last call of DecomposingDitherStrategy::quantize,
                    \* its locals and what it returned

dvars == <<pc, matrix, serpentine, inout, width, height, error_divisor,
           errors_height, errors, y, range, calls>>
lvars == <<lp, lres>>
bvars == <<colors, dec, bres>>
ovars == <<ocolors, odec, ores>>
nvars == <<nres>>
qvars == <<qres>>
vars == <<dvars, lvars, bvars, ovars, nvars, qvars>>

\* ------------------------------------------------------------- bounds
MaxWidth == 4
MaxHeight == 3

\* ------------------------------------------------------- Option<T>
None == <<>>
Some(v) == <<v>>
\* None where Some holds a record (a projector, a decomposer)
Absent == [none |-> TRUE]
\* nothing constructed yet, no call made yet
Unbuilt == [unbuilt |-> TRUE]
NoCall == [op |-> "none"]

\* ------------------------------------------------------- field T
Abs(n) == IF n < 0 THEN 0 - n ELSE n

RECURSIVE Gcd(_, _)
Gcd(a, b) == IF b = 0 THEN a ELSE Gcd(b, a % b)

NaN == <<0, 0>>

Rat(n, d) ==
    IF d = 0 THEN NaN
    ELSE LET g == Gcd(Abs(n), Abs(d))
             s == IF d < 0 THEN 0 - 1 ELSE 1
         IN  <<(s * n) \div g, (s * d) \div g>>

RInt(n) == <<n, 1>>
RZero == RInt(0)
ROne == RInt(1)
RIsNaN(a) == a[2] = 0
\* The operations are functions of the pairs, so that each argument is
\* evaluated once, before the operation.
Q == Int \X Int
add[a \in Q, b \in Q] ==
    IF RIsNaN(a) \/ RIsNaN(b) THEN NaN ELSE Rat(a[1] * b[2] + b[1] * a[2], a[2] * b[2])
sub[a \in Q, b \in Q] ==
    IF RIsNaN(a) \/ RIsNaN(b) THEN NaN ELSE Rat(a[1] * b[2] - b[1] * a[2], a[2] * b[2])
mul[a \in Q, b \in Q] ==
    IF RIsNaN(a) \/ RIsNaN(b) THEN NaN ELSE Rat(a[1] * b[1], a[2] * b[2])
div[a \in Q, b \in Q] ==
    IF RIsNaN(a) \/ RIsNaN(b) THEN NaN ELSE Rat(a[1] * b[2], a[2] * b[1])
\* comparisons with NaN are false, as for IEEE floats
lt[a \in Q, b \in Q] == ~RIsNaN(a) /\ ~RIsNaN(b) /\ a[1] * b[2] < b[1] * a[2]
RAdd(a, b) == add[a, b]
RSub(a, b) == sub[a, b]
RMul(a, b) == mul[a, b]
RDiv(a, b) == div[a, b]
RLt(a, b) == lt[a, b]
RGt(a, b) == lt[b, a]
RIsZero(a) == a = RZero

\* =====================================================================
\* dither/diffusion_matrix.rs
\* =====================================================================
Kernels == {"NoDiffuse", "FloydSteinberg", "JarvisJudiceAndNinke", "Atkinson", "Sierra"}
\* lines 3-6: the trait is public, so a caller may bring a kernel of its
\* own; this one has no target in the row of the pixel
CallerKernels == {"CallerSupplied"}

divisor(m) ==
    CASE m = "NoDiffuse" -> 1
      [] m = "FloydSteinberg" -> 16
      [] m = "JarvisJudiceAndNinke" -> 48
      [] m = "Atkinson" -> 8
      [] m = "Sierra" -> 32
      [] m = "CallerSupplied" -> 3

\* the first target pointing backwards
targets_FloydSteinberg_backward == <<
    <<0 - 1, 0, 7>>, <<0 - 1, 1, 3>>, <<0, 1, 5>>, <<1, 1, 1>> >>
\* (dx, dy, mul)
targets_FloydSteinberg == <<
    <<1, 0, 7>>, <<0 - 1, 1, 3>>, <<0, 1, 5>>, <<1, 1, 1>> >>

targets(m) ==
    CASE m = "NoDiffuse" -> << >>
      [] m = "FloydSteinberg" -> targets_FloydSteinberg
      [] m = "JarvisJudiceAndNinke" -> <<
            <<1, 0, 7>>, <<2, 0, 5>>,
            <<0 - 2, 1, 3>>, <<0 - 1, 1, 5>>, <<0, 1, 7>>, <<1, 1, 5>>, <<2, 1, 3>>,
            <<0 - 2, 2, 1>>, <<0 - 1, 2, 3>>, <<0, 2, 5>>, <<1, 2, 3>>, <<2, 2, 1>> >>
      [] m = "Atkinson" -> <<
            <<1, 0, 1>>, <<2, 0, 1>>,
            <<0 - 1, 1, 1>>, <<0, 1, 1>>, <<1, 1, 1>>,
            <<0, 2, 1>> >>
      [] m = "Sierra" -> <<
            <<1, 0, 5>>, <<2, 0, 3>>,
            <<0 - 2, 1, 2>>, <<0 - 1, 1, 4>>, <<0, 1, 5>>, <<1, 1, 4>>, <<2, 1, 2>>,
            <<0 - 1, 2, 2>>, <<0, 2, 3>>, <<1, 2, 2>> >>
      [] m = "CallerSupplied" -> <<
            <<0, 1, 1>>, <<0 - 1, 2, 1>>, <<1, 2, 1>> >>

\* =====================================================================
\* dither/diffuse.rs
\* =====================================================================

\* ---- the image (ImageSize + ImageReader<Source> + ImageWriter<Target>)
Pos(w, h) == (0 .. (w - 1)) \X (0 .. (h - 1))

\* Every source pixel is a distinct value, so that any other image is a
\* renaming of this one.
SourcePixel(w, x, yy) == yy * w + x + 1

NewImage(w, h) ==
    [w |-> w, h |-> h,
     source |-> [p \in Pos(w, h) |-> SourcePixel(w, p[1], p[2])],
     target |-> [p \in Pos(w, h) |-> None]]

get_pixel(img, x, yy) == img.source[<<x, yy>>]
put_pixel_swapped(img, x, yy, pixel) ==
    [img EXCEPT !.target[<<(img.w - 1) - x, yy>>] = Some(pixel)]
put_pixel(img, x, yy, pixel) == [img EXCEPT !.target[<<x, yy>>] = Some(pixel)]

\* ---- PixelStrategy: the free strategy.  A QuantizationError is a vector
\* of rationals indexed by the source pixels (the residual of the quantize
\* call made for that source pixel is the basis vector); the Target of a
\* call is the call itself.
ErrBasis == 1 .. (width * height)
ErrDefault == [s \in ErrBasis |-> RZero]
ErrUnit(s) == [t \in ErrBasis |-> IF t = s THEN ROne ELSE RZero]
ErrMul(e, n) == [s \in DOMAIN e |-> RMul(e[s], RInt(n))]
ErrDiv(e, n) == [s \in DOMAIN e |-> RDiv(e[s], RInt(n))]
ErrAdd(e, f) == [s \in DOMAIN e |-> RAdd(e[s], f[s])]

quantize(source, error) ==
    <<[source |-> source, error |-> error], ErrUnit(source)>>

\* ---- helpers
\* the sum whatever the limit
add_usize_usize_unclamped(a, b, limit) == Some(a + b)
add_usize_usize_clamped(a, b, limit) ==
    IF a < limit /\ limit - a > b THEN Some(a + b) ELSE None

add_usize_isize_clamped(a, b, limit) ==
    IF b > 0 THEN add_usize_usize_clamped(a, b, limit)
    ELSE IF b < 0
         THEN LET neg_b == 0 - b
              IN  IF neg_b >= a THEN None ELSE Some(a - neg_b)
         ELSE IF a < limit THEN Some(a) ELSE None

RangeWithDir_new(min_inclusive, max_exclusive, dir) ==
    [min_inclusive |-> min_inclusive, max_exclusive |-> max_exclusive, dir |-> dir]

\* next(): <<the item, the iterator afterwards>>
RangeWithDir_next_ascending(r) ==
    IF r.min_inclusive < r.max_exclusive
    THEN <<Some(r.min_inclusive), [r EXCEPT !.min_inclusive = @ + 1]>>
    ELSE <<None, r>>
RangeWithDir_next(r) ==
    IF r.dir > 0
    THEN IF r.min_inclusive < r.max_exclusive
         THEN <<Some(r.min_inclusive), [r EXCEPT !.min_inclusive = @ + r.dir]>>
         ELSE <<None, r>>
    ELSE IF r.dir < 0
         THEN LET neg_dir == 0 - r.dir
              IN  IF r.max_exclusive - r.min_inclusive >= neg_dir
                  THEN <<Some(r.max_exclusive - neg_dir),
                         [r EXCEPT !.max_exclusive = @ - neg_dir]>>
                  ELSE <<None, r>>
         ELSE <<None, r>>

\* ---- diffuse_dither
SeqMin(s) == CHOOSE v \in {s[i] : i \in DOMAIN s} : \A i \in DOMAIN s : v <= s[i]
SeqMax(s) == CHOOSE v \in {s[i] : i \in DOMAIN s} : \A i \in DOMAIN s : v >= s[i]

\* lines 114-118: .map(|(_, dy, _)| *dy).min().unwrap_or(0)
max_y_diffuse(diffuse_targets) ==
    IF diffuse_targets = << >> THEN 0
    ELSE SeqMin([i \in DOMAIN diffuse_targets |-> diffuse_targets[i][2]])

row_dir(serp, yy) == IF serp /\ (yy % 2) = 1 THEN 0 - 1 ELSE 1

\* lines 133-140: the loop over the targets, from target i on.  st is
\* [errors, writes, ok]: the buffer, the instrumentation (which targets
\* were added where) and whether every index was inside the buffer.
RECURSIVE diffuse_loop(_, _, _, _, _, _)
diffuse_loop(st, i, x, yy, dir, error) ==
    LET diffuse_targets == targets(matrix) IN
    IF i > Len(diffuse_targets) THEN st
    ELSE LET t == diffuse_targets[i]
             tx == add_usize_isize_clamped(x, t[1] * dir, width)
             ty == add_usize_usize_clamped(yy, t[2], height)
         IN  IF tx # None /\ ty # None
             THEN LET idx == tx[1] + ((ty[1] % errors_height) * width)
                  IN  IF idx \in DOMAIN st.errors
                      THEN diffuse_loop(
                              [st EXCEPT
                                 !.errors[idx] = ErrAdd(@, ErrMul(error, t[3])),
                                 !.writes = Append(@, [k |-> i, tx |-> tx[1],
                                                       ty |-> ty[1], idx |-> idx])],
                              i + 1, x, yy, dir, error)
                      ELSE [st EXCEPT !.ok = FALSE]
             ELSE diffuse_loop(st, i + 1, x, yy, dir, error)

DInit ==
    /\ pc = "entry"
    /\ matrix \in Kernels \cup CallerKernels
    /\ serpentine \in BOOLEAN
    /\ \E w \in 0 .. MaxWidth, h \in 0 .. MaxHeight : inout = NewImage(w, h)
    /\ width = 0 /\ height = 0
    /\ error_divisor = 0 /\ errors_height = 0
    /\ errors = << >>
    /\ y = 0
    /\ range = RangeWithDir_new(0, 0, 0)
    /\ calls = << >>

\* lines 107-121
Setup ==
    /\ pc = "entry"
    /\ width' = inout.w
    /\ height' = inout.h
    /\ error_divisor' = divisor(matrix)
    /\ errors_height' = max_y_diffuse(targets(matrix)) + 1
    /\ errors' = [i \in 0 .. (width' * errors_height' - 1) |->
                    [s \in 1 .. (width' * height') |-> RZero]]
    /\ y' = 0
    /\ pc' = "rows"
    /\ UNCHANGED <<matrix, serpentine, inout, range, calls>>
    /\ UNCHANGED <<lvars, bvars, ovars, nvars, qvars>>

\* lines 122-124: the outer loop yields a row; its iterator is built
RowBegin ==
    /\ pc = "rows"
    /\ y < height
    /\ range' = RangeWithDir_new(0, width, row_dir(serpentine, y))
    /\ pc' = "cols"
    /\ UNCHANGED <<matrix, serpentine, inout, width, height, error_divisor,
                   errors_height, errors, y, calls>>
    /\ UNCHANGED <<lvars, bvars, ovars, nvars, qvars>>

\* lines 124-141: the inner loop yields x; the loop body
PixelStep ==
    /\ pc = "cols"
    /\ LET nx == RangeWithDir_next(range) IN
       /\ nx[1] # None
       /\ range' = nx[2]
       /\ LET x == nx[1][1]
              dir == range.dir
              idx == x + ((y % errors_height) * width)
          IN  IF <<x, y>> \notin Pos(inout.w, inout.h) \/ idx \notin DOMAIN errors
              THEN /\ pc' = "panic"
                   /\ UNCHANGED <<inout, errors, calls>>
              ELSE LET source == get_pixel(inout, x, y)
                       taken == errors[idx]
                       q == quantize(source, ErrDiv(taken, error_divisor))
                       st == diffuse_loop(
                                [errors |-> [errors EXCEPT ![idx] = ErrDefault],
                                 writes |-> << >>, ok |-> TRUE],
                                1, x, y, dir, q[2])
                   IN  /\ inout' = put_pixel(inout, x, y, q[1])
                       /\ errors' = st.errors
                       /\ pc' = IF st.ok THEN "cols" ELSE "panic"
                       /\ calls' = Append(calls,
                             [x |-> x, y |-> y, dir |-> dir, source |-> source,
                              error |-> q[1].error, target |-> q[1],
                              residual |-> q[2], writes |-> st.writes])
    /\ UNCHANGED <<matrix, serpentine, width, height, error_divisor,
                   errors_height, y>>
    /\ UNCHANGED <<lvars, bvars, ovars, nvars, qvars>>

\* the inner loop is exhausted: next row
RowEnd ==
    /\ pc = "cols"
    /\ RangeWithDir_next(range)[1] = None
    /\ y' = y + 1
    /\ pc' = "rows"
    /\ UNCHANGED <<matrix, serpentine, inout, width, height, error_divisor,
                   errors_height, errors, range, calls>>
    /\ UNCHANGED <<lvars, bvars, ovars, nvars, qvars>>

\* the outer loop is exhausted: diffuse_dither returns
Return ==
    /\ pc = "rows"
    /\ y >= height
    /\ pc' = "done"
    /\ UNCHANGED <<matrix, serpentine, inout, width, height, error_divisor,
                   errors_height, errors, y, range, calls>>
    /\ UNCHANGED <<lvars, bvars, ovars, nvars, qvars>>

\* =====================================================================
\* barycentric/line.rs
\* =====================================================================
\* Point3<T> and Vector3<T>: triples of rationals
Pt(x, yy, z) == <<RInt(x), RInt(yy), RInt(z)>>
Q3 == Q \X Q \X Q
vsub[p \in Q3, q \in Q3] == <<RSub(p[1], q[1]), RSub(p[2], q[2]), RSub(p[3], q[3])>>
vadd[p \in Q3, q \in Q3] == <<RAdd(p[1], q[1]), RAdd(p[2], q[2]), RAdd(p[3], q[3])>>
vscale[v \in Q3, k \in Q] == <<RMul(v[1], k), RMul(v[2], k), RMul(v[3], k)>>
vdot[u \in Q3, v \in Q3] ==
    RAdd(RAdd(RMul(u[1], v[1]), RMul(u[2], v[2])), RMul(u[3], v[3]))
VSub(p, q) == vsub[p, q]
VAdd(p, q) == vadd[p, q]
VScale(v, k) == vscale[v, k]
dot(u, v) == vdot[u, v]
norm_squared(v) == vdot[v, v]

\* lines 25-35
LineProjector_new(vertices) ==
    LET a == vertices[1]
        b == vertices[2]
        direction == VSub(b, a)
    IN  [origin |-> a, direction |-> direction,
         length_squared |-> norm_squared(direction)]

\* lines 38-51
project_unchecked(self, pt) ==
    LET origin_to_pt == VSub(pt, self.origin)
        t == RDiv(dot(origin_to_pt, self.direction), self.length_squared)
    IN  <<RSub(ROne, t), t>>
project_undivided(self, pt) ==
    IF RIsZero(self.length_squared) THEN <<ROne, RZero>>
    ELSE LET origin_to_pt == VSub(pt, self.origin)
             t == dot(origin_to_pt, self.direction)
         IN  IF RIsZero(norm_squared(origin_to_pt)) THEN <<ROne, RZero>>
             ELSE <<RSub(ROne, t), t>>
project(self, pt) ==
    IF RIsZero(self.length_squared) THEN <<ROne, RZero>>
    ELSE LET origin_to_pt == VSub(pt, self.origin)
             origin_to_pt_dist_sq == norm_squared(origin_to_pt)
         IN  IF RIsZero(origin_to_pt_dist_sq) THEN <<ROne, RZero>>
             ELSE LET t == RDiv(dot(origin_to_pt, self.direction), self.length_squared)
                  IN  <<RSub(ROne, t), t>>

\* lines 53-55
bary_to_point(self, barycentric_coords) ==
    VAdd(self.origin, VScale(self.direction, barycentric_coords[2]))

\* lines 63-72
clipping_project_swapped(self, pt) ==
    LET ret == project(self, pt)
    IN  IF RLt(ret[1], RZero) THEN <<<<ROne, RZero>>, TRUE>>
        ELSE IF RLt(ret[2], RZero) THEN <<<<RZero, ROne>>, TRUE>>
        ELSE <<ret, FALSE>>
clipping_project(self, pt) ==
    LET ret == project(self, pt)
    IN  IF RLt(ret[1], RZero) THEN <<<<RZero, ROne>>, TRUE>>
        ELSE IF RLt(ret[2], RZero) THEN <<<<ROne, RZero>>, TRUE>>
        ELSE <<ret, FALSE>>

\* ---- the calls a user of LineProjector makes.  project and
\* clipping_project leave the projector as it is, so a call made after
\* other calls returns what it returns on the fresh projector: each
\* behaviour builds a projector and makes one call.
MaxCoord == 1
VertexPoints == {Pt(c[1], c[2], c[3]) : c \in (0 .. MaxCoord) \X (0 .. MaxCoord) \X (0 .. MaxCoord)}
QueryCoords == (0 - 1) .. (MaxCoord + 1)
QueryPoints == {Pt(c[1], c[2], c[3]) : c \in QueryCoords \X QueryCoords \X QueryCoords}

LineNew ==
    /\ lp = Unbuilt
    /\ \E a \in VertexPoints, b \in VertexPoints :
          /\ lp' = LineProjector_new(<<a, b>>)
          /\ lres' = [op |-> "new", a |-> a, b |-> b, ret |-> lp']
    /\ UNCHANGED <<dvars, bvars, ovars, nvars, qvars>>

LineProject ==
    /\ lp # Unbuilt /\ lres.op = "new"
    /\ \E pt \in QueryPoints :
          lres' = [op |-> "project", pt |-> pt, ret |-> project(lp, pt)]
    /\ UNCHANGED <<lp, dvars, bvars, ovars, nvars, qvars>>

LineClippingProject ==
    /\ lp # Unbuilt /\ lres.op = "new"
    /\ \E pt \in QueryPoints :
          lres' = [op |-> "clipping_project", pt |-> pt, ret |-> clipping_project(lp, pt)]
    /\ UNCHANGED <<lp, dvars, bvars, ovars, nvars, qvars>>

\* =====================================================================
\* barycentric/tetrahedron.rs, barycentric/triangle.rs (not among the
\* sources: their contract is taken from the specification, sections 3
\* and 4.2, and solved by Cramer's rule)
\* =====================================================================
vcross[u \in Q3, v \in Q3] ==
    <<RSub(RMul(u[2], v[3]), RMul(u[3], v[2])),
      RSub(RMul(u[3], v[1]), RMul(u[1], v[3])),
      RSub(RMul(u[1], v[2]), RMul(u[2], v[1]))>>
cross(u, v) == vcross[u, v]
Det3(u, v, w) == dot(u, cross(v, w))

\* None for a tetrahedron of zero volume
TetrahedronProjector_new(vertices) ==
    LET e1 == VSub(vertices[2], vertices[1])
        e2 == VSub(vertices[3], vertices[1])
        e3 == VSub(vertices[4], vertices[1])
        det == Det3(e1, e2, e3)
    IN  IF RIsZero(det) THEN Absent
        ELSE [origin |-> vertices[1], e1 |-> e1, e2 |-> e2, e3 |-> e3, det |-> det]

\* the four barycentric coordinates of pt
TetrahedronProjector_project(self, pt) ==
    LET d == VSub(pt, self.origin)
        w1 == RDiv(Det3(d, self.e2, self.e3), self.det)
        w2 == RDiv(Det3(self.e1, d, self.e3), self.det)
        w3 == RDiv(Det3(self.e1, self.e2, d), self.det)
    IN  <<RSub(RSub(RSub(ROne, w1), w2), w3), w1, w2, w3>>

\* None for a triangle of zero area
TriangleProjector_new(vertices) ==
    LET e1 == VSub(vertices[2], vertices[1])
        e2 == VSub(vertices[3], vertices[1])
        n == cross(e1, e2)
    IN  IF RIsZero(norm_squared(n)) THEN Absent
        ELSE [origin |-> vertices[1], e1 |-> e1, e2 |-> e2, normal |-> n,
              normal_len_sq |-> norm_squared(n)]

\* <<the three barycentric coordinates of the foot of the perpendicular
\* from pt to the plane of the triangle, the signed distance of pt to that
\* plane>>.  The distance is dot(pt - origin, normal) / |normal|, kept as
\* its numerator and the square of its denominator.
TriangleProjector_project(self, pt) ==
    LET d == VSub(pt, self.origin)
        w1 == RDiv(dot(cross(d, self.e2), self.normal), self.normal_len_sq)
        w2 == RDiv(dot(cross(self.e1, d), self.normal), self.normal_len_sq)
    IN  <<<<RSub(RSub(ROne, w1), w2), w1, w2>>,
          [num |-> dot(d, self.normal), den_sq |-> self.normal_len_sq]>>

\* distance * distance
DistanceTimesDistance(distance) ==
    RDiv(RMul(distance.num, distance.num), distance.den_sq)

\* =====================================================================
\* decomposer_bruteforce.rs
\* =====================================================================
\* (0..n).combinations(k), in itertools' (lexicographic) order
RECURSIVE combinations_from(_, _, _)
combinations_from(lo, n, k) ==
    IF k = 0 THEN << << >> >>
    ELSE IF lo >= n THEN << >>
    ELSE LET with == combinations_from(lo + 1, n, k - 1)
         IN  [i \in DOMAIN with |-> <<lo>> \o with[i]]
             \o combinations_from(lo + 1, n, k)
combinations(n, k) == combinations_from(0, n, k)

\* .filter_map(...).collect() of lines 40-66: build(points) is the
\* projector constructor; a combination whose projector is None is skipped
is_some(item) == item[1] # Absent
\* the projector constructor called for a combination of k vertices
new_projector(k, vertices) ==
    CASE k = 4 -> TetrahedronProjector_new(vertices)
      [] k = 3 -> TriangleProjector_new(vertices)
      [] k = 2 -> LineProjector_new(vertices)
filter_map(combs, cols, k) ==
    SelectSeq([i \in DOMAIN combs |->
                  <<new_projector(k, [j \in DOMAIN combs[i] |-> cols[combs[i][j] + 1]]),
                    combs[i]>>],
              is_some)

DecomposerBruteforce_new_all(cols) ==
    LET num_colors == Len(cols)
        tetras == filter_map(combinations(num_colors, 4), cols, 4)
        faces == filter_map(combinations(num_colors, 3), cols, 3)
        edges == filter_map(combinations(num_colors, 2), cols, 2)
    IN  IF Len(tetras) > 0 /\ Len(faces) > 0 /\ Len(edges) > 0
        THEN [num_colors |-> num_colors, tetras |-> tetras, faces |-> faces, edges |-> edges]
        ELSE Absent
\* lines 38-77
DecomposerBruteforce_new(cols) ==
    LET num_colors == Len(cols)
        tetras == filter_map(combinations(num_colors, 4), cols, 4)
        faces == filter_map(combinations(num_colors, 3), cols, 3)
        edges == filter_map(combinations(num_colors, 2), cols, 2)
    IN  IF Len(tetras) > 0 \/ Len(faces) > 0 \/ Len(edges) > 0
        THEN [num_colors |-> num_colors, tetras |-> tetras, faces |-> faces, edges |-> edges]
        ELSE Absent

to_global_barycentric_coordinates_shifted(self, local_barycentric, vertex_indices) ==
    [g \in 1 .. self.num_colors |->
        IF \E l \in DOMAIN vertex_indices : vertex_indices[l] = g
        THEN local_barycentric[
                CHOOSE l \in DOMAIN vertex_indices : vertex_indices[l] = g]
        ELSE RZero]
\* lines 79-91
to_global_barycentric_coordinates(self, local_barycentric, vertex_indices) ==
    [g \in 1 .. self.num_colors |->
        IF \E l \in DOMAIN vertex_indices : vertex_indices[l] = g - 1
        THEN local_barycentric[
                CHOOSE l \in DOMAIN vertex_indices :
                    /\ vertex_indices[l] = g - 1
                    /\ \A m \in DOMAIN vertex_indices : vertex_indices[m] = g - 1 => m <= l]
        ELSE RZero]

\* .min() and .max() of a vector
vec_min_from[v \in Seq(Q), i \in Nat, acc \in Q] ==
    IF i > Len(v) THEN acc
    ELSE vec_min_from[v, i + 1, IF RLt(v[i], acc) THEN v[i] ELSE acc]
vec_min(v) == vec_min_from[v, 2, v[1]]
vec_max_from[v \in Seq(Q), i \in Nat, acc \in Q] ==
    IF i > Len(v) THEN acc
    ELSE vec_max_from[v, i + 1, IF RGt(v[i], acc) THEN v[i] ELSE acc]
vec_max(v) == vec_max_from[v, 2, v[1]]

\* Iterator::reduce(|a, b| if key(b) < key(a) { b } else { a }) over the
\* items with these keys: the index of the item kept (acc so far)
reduce_less_from[keys \in Seq(Q), i \in Nat, acc \in Nat] ==
    IF i > Len(keys) THEN acc
    ELSE reduce_less_from[keys, i + 1, IF RLt(keys[i], keys[acc]) THEN i ELSE acc]
\* the same with key(b) > key(a)
reduce_greater_from[keys \in Seq(Q), i \in Nat, acc \in Nat] ==
    IF i > Len(keys) THEN acc
    ELSE reduce_greater_from[keys, i + 1, IF RGt(keys[i], keys[acc]) THEN i ELSE acc]
reduce_less(items, keys) ==
    IF items = << >> THEN None ELSE Some(items[reduce_less_from[keys, 2, 1]])
reduce_greater(items, keys) ==
    IF items = << >> THEN None ELSE Some(items[reduce_greater_from[keys, 2, 1]])

\* In what follows "x \in {e}" binds x to the value of e, which is then
\* computed once however often x is used.
covers(c) == ~RLt(vec_min(c.projected), RZero)

covers_strictly(c) == RGt(vec_min(c.projected), RZero)
in_tetras_strict(self, pt) ==
    LET all == [i \in DOMAIN self.tetras |->
                  [projected |-> TetrahedronProjector_project(self.tetras[i][1], pt),
                   vertex_indices |-> self.tetras[i][2]]]
    IN  SelectSeq(all, covers_strictly)
\* lines 94-101: the covering tetrahedra, [projected, vertex_indices]
in_tetras(self, pt) ==
    LET all == [i \in DOMAIN self.tetras |->
                  [projected |-> TetrahedronProjector_project(self.tetras[i][1], pt),
                   vertex_indices |-> self.tetras[i][2]]]
    IN  SelectSeq(all, covers)

\* lines 102-109
max_weights(candidates) == [i \in DOMAIN candidates |-> vec_max(candidates[i].projected)]
reduce_in_tetras_swapped(candidates, strategy) ==
    CHOOSE r \in {IF strategy = "FavorMix" THEN reduce_greater(c, max_weights(c))
                  ELSE reduce_less(c, max_weights(c)) : c \in {candidates}} : TRUE
reduce_in_tetras(candidates, strategy) ==
    CHOOSE r \in {IF strategy = "FavorMix" THEN reduce_less(c, max_weights(c))
                  ELSE reduce_greater(c, max_weights(c)) : c \in {candidates}} : TRUE

\* the faces without the test on the weights
on_faces_unfiltered(self, pt) ==
    [i \in DOMAIN self.faces |->
        LET pr == TriangleProjector_project(self.faces[i][1], pt)
        IN  [distance_sq |-> DistanceTimesDistance(pr[2]),
             projected |-> pr[1],
             vertex_indices |-> self.faces[i][2]]]
\* lines 113-126
on_faces(self, pt) ==
    LET all == [i \in DOMAIN self.faces |->
                  LET pr == TriangleProjector_project(self.faces[i][1], pt)
                  IN  [distance_sq |-> DistanceTimesDistance(pr[2]),
                       projected |-> pr[1],
                       vertex_indices |-> self.faces[i][2]]]
    IN  SelectSeq(all, covers)

not_clipped(c) == ~c.clipped
on_edges_unclipped(self, pt) ==
    SelectSeq([i \in DOMAIN self.edges |->
                  LET edge == self.edges[i][1]
                      cp == clipping_project(edge, pt)
                  IN  [distance_sq |-> norm_squared(VSub(bary_to_point(edge, cp[1]), pt)),
                       projected |-> cp[1],
                       vertex_indices |-> self.edges[i][2],
                       clipped |-> cp[2]]],
              not_clipped)
\* lines 127-132
on_edges(self, pt) ==
    [i \in DOMAIN self.edges |->
        LET edge == self.edges[i][1]
            projected == clipping_project(edge, pt)[1]
            projected_pt == bary_to_point(edge, projected)
        IN  [distance_sq |-> norm_squared(VSub(projected_pt, pt)),
             projected |-> projected,
             vertex_indices |-> self.edges[i][2]]]

distances(candidates) == [i \in DOMAIN candidates |-> candidates[i].distance_sq]
closest(candidates) ==
    CHOOSE r \in {reduce_less(c, distances(c)) : c \in {candidates}} : TRUE

simplex(kind, candidate) ==
    [kind |-> kind, projected |-> candidate.projected,
     vertex_indices |-> candidate.vertex_indices]

match_closest_edge_on_tie(closest_face, closest_edge) ==
    IF closest_face # None /\ closest_edge # None
    THEN IF RGt(closest_edge[1].distance_sq, closest_face[1].distance_sq)
         THEN simplex("face", closest_face[1])
         ELSE simplex("edge", closest_edge[1])
    ELSE IF closest_face # None THEN simplex("face", closest_face[1])
    ELSE IF closest_edge # None THEN simplex("edge", closest_edge[1])
    ELSE [kind |-> "panic", projected |-> << >>, vertex_indices |-> << >>]
\* lines 134-152: the match on (closest_face, closest_edge); kind "panic"
\* for its last arm
match_closest(closest_face, closest_edge) ==
    IF closest_face # None /\ closest_edge # None
    THEN IF RLt(closest_edge[1].distance_sq, closest_face[1].distance_sq)
         THEN simplex("edge", closest_edge[1])
         ELSE simplex("face", closest_face[1])
    ELSE IF closest_face # None THEN simplex("face", closest_face[1])
    ELSE IF closest_edge # None THEN simplex("edge", closest_edge[1])
    ELSE [kind |-> "panic", projected |-> << >>, vertex_indices |-> << >>]

\* lines 113-152
closest_face_or_edge(self, pt) ==
    CHOOSE r \in {match_closest(closest_face, closest_edge) :
                     closest_face \in {closest(on_faces(self, pt))},
                     closest_edge \in {closest(on_edges(self, pt))}} : TRUE

\* lines 93-153, up to the choice of the simplex: [kind, projected,
\* vertex_indices]
decompose_choice(self, pt, strategy) ==
    CHOOSE r \in {IF tetra # None THEN simplex("tetra", tetra[1])
                  ELSE closest_face_or_edge(self, pt) :
                     tetra \in {reduce_in_tetras(in_tetras(self, pt), strategy)}} : TRUE

\* the vector returned for the chosen simplex (<< >> when decompose panics)
global_of(self, c) ==
    IF c.kind = "panic" THEN << >>
    ELSE to_global_barycentric_coordinates(self, c.projected, c.vertex_indices)

\* lines 93-153
decompose(self, pt, strategy) ==
    CHOOSE r \in {global_of(self, c) : c \in {decompose_choice(self, pt, strategy)}} : TRUE

\* ---- the calls a user of DecomposerBruteforce makes
MaxColors == 5
\* longest palette in which a colour may occur twice
MaxRepeatLen == 2
PalettePoints ==
    {Pt(0, 0, 0), Pt(4, 0, 0), Pt(0, 4, 0), Pt(0, 0, 4),
     Pt(1, 1, 1),      \* inside the tetrahedron of the first four
     Pt(2, 0, 0)}      \* on the edge between the first two
Distinct(q) == \A i \in DOMAIN q : \A j \in DOMAIN q : q[i] = q[j] => i = j
Palettes ==
    {q \in UNION {[1 .. n -> PalettePoints] : n \in 0 .. MaxColors} :
        Distinct(q) \/ Len(q) <= MaxRepeatLen}
DecomposeStrategies == {"FavorMix", "FavorDominant"}
DecomposePoints ==
    PalettePoints \cup {Pt(1, 1, 0), Pt(2, 2, 2), Pt(0 - 1, 0, 0)}

BruteNew ==
    /\ dec = Unbuilt
    /\ \E q \in Palettes :
          /\ colors' = q
          /\ dec' = DecomposerBruteforce_new(q)
    /\ bres' = [op |-> "new"]
    /\ UNCHANGED <<dvars, lvars, ovars, nvars, qvars>>

\* decompose leaves the decomposer as it is: one call per behaviour
BruteDecompose ==
    /\ dec # Unbuilt /\ dec # Absent /\ bres.op = "new"
    /\ \E pt \in DecomposePoints, strategy \in DecomposeStrategies :
          \E c \in {decompose_choice(dec, pt, strategy)} :
              bres' = [op |-> "decompose", pt |-> pt, strategy |-> strategy,
                       kind |-> c.kind, vertex_indices |-> c.vertex_indices,
                       ret |-> decompose(dec, pt, strategy)]
    /\ UNCHANGED <<colors, dec, dvars, lvars, ovars, nvars, qvars>>

\* =====================================================================
\* helpers.rs
\* =====================================================================
opt_array_transpose_any(arr) ==
    IF \E i \in DOMAIN arr : arr[i] # Absent THEN arr ELSE Absent
\* lines 1-7
opt_array_transpose(arr) ==
    IF \A i \in DOMAIN arr : arr[i] # Absent THEN arr ELSE Absent

\* =====================================================================
\* decompose/octahedron.rs
\* =====================================================================
\* ---- barycentric/octahedron.rs is not among the sources.  What
\* OctahedronProjector::find_opposites and OctahedronProjector::new answer
\* for a palette is an input: any answer the specification (section 4.3)
\* allows.
OctaIndexPairs == {pr \in (0 .. 5) \X (0 .. 5) : pr[1] < pr[2]}
\* find_opposites: three pairs of palette indices, every index in one pair
OppositeMaps ==
    {m \in [1 .. 3 -> OctaIndexPairs] :
        \A c \in 0 .. 5 : \E k \in 1 .. 3 : m[k][1] = c \/ m[k][2] = c}
\* OctahedronProjector::new: ok tells whether the geometry is accepted
OctahedronProjector_new(vertices, ok) ==
    IF ok THEN [vertices |-> vertices] ELSE Absent

\* lines 25-38
LineDistanceCalculator_new(vertices) ==
    LET origin == vertices[1]
        target == vertices[2]
        direction == VSub(target, origin)
        direction_len_sq == norm_squared(direction)
    IN  IF RIsZero(direction_len_sq) THEN Absent
        ELSE [origin |-> origin, direction |-> direction,
              direction_len_sq |-> direction_len_sq]

\* the distance to the first pole instead of the distance to the line
distance_squared_to_origin(self, pt) ==
    norm_squared(VSub(self.origin, pt))
\* lines 40-43
distance_squared(self, pt) ==
    RDiv(norm_squared(cross(self.direction, VSub(self.origin, pt))),
         self.direction_len_sq)

\* lines 83-86: the array starts as [0; 6] and is written once per vertex,
\* a later write replacing an earlier one; a function on 0 .. 5
color_to_vertex_index_of(vertex_index_to_color) ==
    [c \in 0 .. 5 |->
        LET hits == {vi \in 0 .. 5 : vertex_index_to_color[vi + 1] = c}
        IN  IF hits = {} THEN 0
            ELSE CHOOSE vi \in hits : \A other \in hits : other <= vi]

\* lines 81-99; ok is the answer of OctahedronProjector::new
OctahedronDecomposerAxis_new(vertex_index_to_color, cols, ok) ==
    LET poles == <<vertex_index_to_color[1], vertex_index_to_color[2]>>
        projector == OctahedronProjector_new(
                        [v \in 1 .. 6 |-> cols[vertex_index_to_color[v] + 1]], ok)
        distance_calc == LineDistanceCalculator_new(
                        [v \in 1 .. 2 |-> cols[poles[v] + 1]])
    IN  IF projector = Absent THEN Absent
        ELSE IF distance_calc = Absent THEN Absent
        ELSE [poles |-> poles, projector |-> projector,
              distance_calc |-> distance_calc,
              color_to_vertex_index |-> color_to_vertex_index_of(vertex_index_to_color)]

\* lines 124-131, for axis_index in 0 .. 2
vertex_index_to_color_of(opposite_map, axis_index) ==
    <<opposite_map[(axis_index % 3) + 1][1],
      opposite_map[(axis_index % 3) + 1][2],
      opposite_map[((axis_index + 1) % 3) + 1][1],
      opposite_map[((axis_index + 2) % 3) + 1][1],
      opposite_map[((axis_index + 1) % 3) + 1][2],
      opposite_map[((axis_index + 2) % 3) + 1][2]>>

\* lines 119-135; opposite_map is the answer of find_opposites and oks[k]
\* the answer of OctahedronProjector::new for axis k
OctahedronDecomposer_new(cols, opposite_map, oks) ==
    IF Len(cols) # 6 THEN Absent
    ELSE IF opposite_map = Absent THEN Absent
    ELSE LET axis == opt_array_transpose(
                        [k \in 1 .. 3 |->
                            OctahedronDecomposerAxis_new(
                                vertex_index_to_color_of(opposite_map, k - 1),
                                cols, oks[k - 1])])
         IN  IF axis = Absent THEN Absent ELSE [axis |-> axis]

\* lines 100-105; answer is what self.projector.project(color) returns:
\* <<barycentric_local, is_inside>>
OctahedronDecomposerAxis_project(self, answer) ==
    <<[row \in 1 .. 6 |-> answer[1][self.color_to_vertex_index[row - 1] + 1]],
      answer[2]>>

Vec6Add(u, v) == [i \in 1 .. 6 |-> RAdd(u[i], v[i])]
Vec6Div(u, d) == [i \in 1 .. 6 |-> RDiv(u[i], d)]

\* lines 163-167: the loop over axis_index from i on; st is
\* [barycentric_global, divisor]
RECURSIVE average_loop(_, _, _, _)
average_loop(self, answers, i, st) ==
    IF i >= Len(self.axis) THEN st
    ELSE average_loop(self, answers, i + 1,
            [barycentric_global |->
                Vec6Add(st.barycentric_global,
                        OctahedronDecomposerAxis_project(self.axis[i + 1], answers[i])[1]),
             divisor |-> RAdd(st.divisor, ROne)])
\* the same loop with axes that report the point outside left out
RECURSIVE average_loop_inside_only(_, _, _, _)
average_loop_inside_only(self, answers, i, st) ==
    IF i >= Len(self.axis) THEN st
    ELSE average_loop_inside_only(self, answers, i + 1,
            IF answers[i][2]
            THEN [barycentric_global |->
                    Vec6Add(st.barycentric_global,
                            OctahedronDecomposerAxis_project(self.axis[i + 1], answers[i])[1]),
                  divisor |-> RAdd(st.divisor, ROne)]
            ELSE st)

\* lines 158-171
decompose_Average_inside_only(self, answers) ==
    LET first == OctahedronDecomposerAxis_project(self.axis[1], answers[0])
    IN  IF first[2]
        THEN \* "st \in {e}" computes e once
             CHOOSE r \in {Vec6Div(st.barycentric_global, st.divisor) :
                             st \in {average_loop_inside_only(self, answers, 1,
                                        [barycentric_global |-> first[1],
                                         divisor |-> ROne])}} : TRUE
        ELSE first[1]
decompose_Average(self, answers) ==
    LET first == OctahedronDecomposerAxis_project(self.axis[1], answers[0])
    IN  IF first[2]
        THEN CHOOSE r \in {Vec6Div(st.barycentric_global, st.divisor) :
                             st \in {average_loop(self, answers, 1,
                                        [barycentric_global |-> first[1],
                                         divisor |-> ROne])}} : TRUE
        ELSE first[1]

\* lines 173-178 and 182-187: the distances of color to the 3 axes
axis_distances(self, color) ==
    [k \in 1 .. 3 |-> distance_squared(self.axis[k].distance_calc, color)]

\* lines 147-191; answers[k] is what the projector of axis k returns for
\* color
OctahedronDecomposer_decompose(self, color, strategy, answers) ==
    CASE strategy.tag = "Axis" ->
            LET a == strategy.axis % Len(self.axis)
            IN  OctahedronDecomposerAxis_project(self.axis[a + 1], answers[a])[1]
      [] strategy.tag = "Average" -> decompose_Average(self, answers)
      [] strategy.tag = "Closest" ->
            LET k == reduce_less_from[axis_distances(self, color), 2, 1]
            IN  OctahedronDecomposerAxis_project(self.axis[k], answers[k - 1])[1]
      [] strategy.tag = "Furthest" ->
            LET k == reduce_greater_from[axis_distances(self, color), 2, 1]
            IN  OctahedronDecomposerAxis_project(self.axis[k], answers[k - 1])[1]

\* find_map over the poles of the first pole only
get_axis_from_color_first_pole(self, color_index) ==
    LET hits == {axis_index \in 0 .. 2 :
                    self.axis[axis_index + 1].poles[1] = color_index}
    IN  IF hits = {} THEN None
        ELSE Some(CHOOSE k \in hits : \A other \in hits : k <= other)
\* lines 137-145: find_map answers for the first axis that matches
get_axis_from_color(self, color_index) ==
    LET hits == {axis_index \in 0 .. 2 :
                    \/ self.axis[axis_index + 1].poles[1] = color_index
                    \/ self.axis[axis_index + 1].poles[2] = color_index}
    IN  IF hits = {} THEN None
        ELSE Some(CHOOSE k \in hits : \A other \in hits : k <= other)

\* ---- the calls a user of OctahedronDecomposer makes
RegularOctahedron ==
    <<Pt(2, 0, 0), Pt(0 - 2, 0, 0), Pt(0, 2, 0), Pt(0, 0 - 2, 0),
      Pt(0, 0, 2), Pt(0, 0, 0 - 2)>>
OctaPalettes ==
    {RegularOctahedron,
     [RegularOctahedron EXCEPT ![1] = Pt(3, 1, 0)],        \* irregular
     [RegularOctahedron EXCEPT ![2] = Pt(2, 0, 0)],        \* two equal points
     SubSeq(RegularOctahedron, 1, 5),
     RegularOctahedron \o <<Pt(0, 0, 0)>>}
AllOk == [k \in 0 .. 2 |-> TRUE]

\* find_opposites is consulted only for 6 points, OctahedronProjector::new
\* only when it answered
OctaNew ==
    /\ odec = Unbuilt
    /\ \E q \in OctaPalettes, opposite_map \in OppositeMaps \cup {Absent},
          oks \in [0 .. 2 -> BOOLEAN] :
          /\ Len(q) # 6 => opposite_map = Absent
          /\ opposite_map = Absent => oks = AllOk
          /\ ocolors' = q
          /\ odec' = OctahedronDecomposer_new(q, opposite_map, oks)
          /\ ores' = [op |-> "new", opposite_map |-> opposite_map, oks |-> oks]
    /\ UNCHANGED <<dvars, lvars, bvars, nvars, qvars>>

\* largest argument of the strategy Axis(k)
MaxAxisArg == 3
OctaStrategies ==
    {[tag |-> "Axis", axis |-> a] : a \in 0 .. MaxAxisArg}
    \cup {[tag |-> t, axis |-> 0] : t \in {"Closest", "Furthest", "Average"}}
OctaQueryPoints == {Pt(1, 0, 0), Pt(0, 1, 3), Pt(1, 1, 0)}
\* what OctahedronProjector::project may answer: six local weights summing
\* to 1, pairwise different, and whether the point is inside
ProjectAnswers ==
    {<<[v \in 1 .. 6 |-> Rat(v, 21)], TRUE>>,
     <<[v \in 1 .. 6 |-> Rat(2 * v + 3, 60)], TRUE>>,
     <<[v \in 1 .. 6 |-> Rat(4 * v - 7, 42)], FALSE>>}

\* decompose leaves the decomposer as it is: one call per behaviour
OctaDecompose ==
    /\ odec # Unbuilt /\ odec # Absent /\ ores.op = "new"
    /\ \E color \in OctaQueryPoints, strategy \in OctaStrategies,
          answers \in [0 .. 2 -> ProjectAnswers] :
          ores' = [op |-> "decompose", opposite_map |-> ores.opposite_map,
                   color |-> color, strategy |-> strategy, answers |-> answers,
                   ret |-> OctahedronDecomposer_decompose(odec, color, strategy, answers)]
    /\ UNCHANGED <<ocolors, odec, dvars, lvars, bvars, nvars, qvars>>

\* largest argument of get_axis_from_color
MaxColorIndex == 7
\* get_axis_from_color reads the decomposer
OctaGetAxisFromColor ==
    /\ odec # Unbuilt /\ odec # Absent /\ ores.op = "new"
    /\ \E color_index \in 0 .. MaxColorIndex :
          ores' = [op |-> "get_axis_from_color", opposite_map |-> ores.opposite_map,
                   color_index |-> color_index,
                   ret |-> get_axis_from_color(odec, color_index)]
    /\ UNCHANGED <<ocolors, odec, dvars, lvars, bvars, nvars, qvars>>

\* =====================================================================
\* noise.rs
\* =====================================================================
\* ---- F = f32, as the callers of bayer and bayer_inf instantiate it.  A
\* value is <<m, e>>, standing for m / 2^e, with m odd (or <<0, 0>>); the
\* exponent range of f32 is not reached by the coordinates used here.
DyNorm[m \in Nat, e \in Nat] ==
    IF m = 0 THEN <<0, 0>>
    ELSE IF e > 0 /\ m % 2 = 0 THEN DyNorm[m \div 2, e - 1]
    ELSE <<m, e>>
BitLen[m \in Nat] == IF m = 0 THEN 0 ELSE 1 + BitLen[m \div 2]
\* round to nearest, ties to even, on the 24 bits of an f32 significand
F32Round(a) ==
    LET b == BitLen[a[1]] IN
    IF b <= 24 THEN DyNorm[a[1], a[2]]
    ELSE LET shift == b - 24
             q == a[1] \div (2 ^ shift)
             rem == a[1] % (2 ^ shift)
             half == 2 ^ (shift - 1)
             up == IF rem > half \/ (rem = half /\ q % 2 = 1) THEN 1 ELSE 0
         IN  DyNorm[(q + up) * (2 ^ shift), a[2]]
\* the sum before rounding
DyAdd(a, b) ==
    LET e == IF a[2] > b[2] THEN a[2] ELSE b[2]
    IN  DyNorm[a[1] * (2 ^ (e - a[2])) + b[1] * (2 ^ (e - b[2])), e]
F32Add[a \in Nat \X Nat, b \in Nat \X Nat] == F32Round(DyAdd(a, b))
F32Mul[a \in Nat \X Nat, b \in Nat \X Nat] == F32Round(DyNorm[a[1] * b[1], a[2] + b[2]])
F32FromInt(n) == <<n, 0>>
DyLt(a, b) == a[1] * (2 ^ b[2]) < b[1] * (2 ^ a[2])

\* line 15; BAYER_MATRIX[y % 2][x % 2] is BAYER_MATRIX[(y % 2) + 1][(x % 2) + 1]
BAYER_MATRIX == <<<<0, 2>>, <<3, 1>>>>
\* lines 21 and 39: 0.25
base_multiplier == <<1, 2>>

\* lines 26-31: the while loop
RECURSIVE bayer_inf_loop(_, _, _, _)
bayer_inf_loop(ret, x, yy, multiplier) ==
    IF x > 0 \/ yy > 0
    THEN bayer_inf_loop(
            F32Add[ret, F32Mul[multiplier,
                               F32FromInt(BAYER_MATRIX[(yy % 2) + 1][(x % 2) + 1])]],
            x \div 2, yy \div 2, F32Mul[multiplier, base_multiplier])
    ELSE ret
\* lines 17-33
bayer_inf(x, yy) == bayer_inf_loop(F32FromInt(0), x, yy, base_multiplier)

\* lines 45-51: the while loop
RECURSIVE bayer_loop(_, _, _, _, _)
bayer_loop(ret, x, yy, max_depth, multiplier) ==
    IF max_depth > 0 /\ (x > 0 \/ yy > 0)
    THEN bayer_loop(
            F32Add[ret, F32Mul[multiplier,
                               F32FromInt(BAYER_MATRIX[(yy % 2) + 1][(x % 2) + 1])]],
            x \div 2, yy \div 2, max_depth - 1, F32Mul[multiplier, base_multiplier])
    ELSE ret
bayer_one_more(x, yy, max_depth) ==
    bayer_loop(F32FromInt(0), x, yy, max_depth + 1, base_multiplier)
\* lines 35-53
bayer(x, yy, max_depth) == bayer_loop(F32FromInt(0), x, yy, max_depth, base_multiplier)

\* ---- interleaved_gradient_noise, in exact decimal arithmetic (the
\* rounding of F is left out).  The literals of lines 10 and 11:
\* 0.06711056 and 0.00583715 in units of 10^-8, 52.983_917 in units of
\* 10^-7.
IGN_X == 6711056
IGN_Y == 583715
IGN_MUL == 529839170
\* fract(r / 10^8 * c / 10^7) for 0 <= r < 10^8, as the four base-10^4
\* digits of its multiple of 10^-15, most significant first
fract_mul(r, c) ==
    LET r1 == r \div 10000
        r0 == r % 10000
        c1 == c \div 10000
        c0 == c % 10000
        t0 == r0 * c0
        t1 == r1 * c0 + r0 * c1 + (t0 \div 10000)
        t2 == r1 * c1 + (t1 \div 10000)
    IN  <<(t2 \div 10000) % 1000, t2 % 10000, t1 % 10000, t0 % 10000>>
\* lines 5-13, for x, y >= 0
interleaved_gradient_noise(x, yy) ==
    LET inner1 == x * IGN_X + yy * IGN_Y       \* in units of 10^-8
    IN  fract_mul(inner1 % (10 ^ 8), IGN_MUL)

\* ---- the calls
MaxNoiseCoord == 7
\* coordinates at which a sum of 13 base-4 digits no longer fits an f32
LargeNoiseCoords == {2 ^ 12 - 1, 2 ^ 12 + 1, 2 ^ 13 - 1}
NoiseCoords == (0 .. MaxNoiseCoord) \cup LargeNoiseCoords
MaxNoiseDepth == 3
NoiseDepths == (0 .. MaxNoiseDepth) \cup {13}

\* the noise functions are pure: one call per behaviour
CallBayerInf ==
    /\ nres = NoCall
    /\ \E x \in NoiseCoords, yy \in NoiseCoords :
          nres' = [op |-> "bayer_inf", x |-> x, y |-> yy, ret |-> bayer_inf(x, yy)]
    /\ UNCHANGED <<dvars, lvars, bvars, ovars, qvars>>
CallBayer ==
    /\ nres = NoCall
    /\ \E x \in NoiseCoords, yy \in NoiseCoords, max_depth \in NoiseDepths :
          nres' = [op |-> "bayer", x |-> x, y |-> yy, max_depth |-> max_depth,
                   ret |-> bayer(x, yy, max_depth)]
    /\ UNCHANGED <<dvars, lvars, bvars, ovars, qvars>>
CallInterleavedGradientNoise ==
    /\ nres = NoCall
    /\ \E x \in 0 .. MaxNoiseCoord, yy \in 0 .. MaxNoiseCoord :
          nres' = [op |-> "interleaved_gradient_noise", x |-> x, y |-> yy,
                   ret |-> interleaved_gradient_noise(x, yy)]
    /\ UNCHANGED <<dvars, lvars, bvars, ovars, qvars>>

\* =====================================================================
\* bin/dither.rs
\* =====================================================================
\* ---- f32 with a sign: <<m, e>> stands for m / 2^e, m an odd integer (or
\* <<0, 0>>); rounding to nearest, ties to even, is symmetric in the sign
F32Neg(a) == <<0 - a[1], a[2]>>
F32RoundS(a) ==
    IF a[1] < 0 THEN F32Neg(F32Round(<<0 - a[1], a[2]>>)) ELSE F32Round(a)
F32AddS[a \in Int \X Nat, b \in Int \X Nat] ==
    LET e == IF a[2] > b[2] THEN a[2] ELSE b[2]
    IN  F32RoundS(<<a[1] * (2 ^ (e - a[2])) + b[1] * (2 ^ (e - b[2])), e>>)
F32SubS[a \in Int \X Nat, b \in Int \X Nat] == F32AddS[a, F32Neg(b)]
F32LtS(a, b) ==
    LET e == IF a[2] > b[2] THEN a[2] ELSE b[2]
    IN  a[1] * (2 ^ (e - a[2])) < b[1] * (2 ^ (e - b[2]))
\* the product of two values >= 0 with significands of up to 24 bits,
\* multiplied in halves of 12 bits: the exact product is hi * 2^24 + lo,
\* rounded once to 24 bits
F32MulWide[a \in Nat \X Nat, b \in Nat \X Nat] ==
    LET ah == a[1] \div 4096
        al == a[1] % 4096
        bh == b[1] \div 4096
        bl == b[1] % 4096
        mid == ah * bl + al * bh
        losum == (mid % 4096) * 4096 + al * bl
        lo == losum % (2 ^ 24)
        hi == ah * bh + (mid \div 4096) + (losum \div (2 ^ 24))
        sh == BitLen[hi]
        q == hi * (2 ^ (24 - sh)) + (lo \div (2 ^ sh))
        rem == lo % (2 ^ sh)
        half == 2 ^ (sh - 1)
        up == IF rem > half \/ (rem = half /\ q % 2 = 1) THEN 1 ELSE 0
    IN  IF hi = 0 THEN DyNorm[lo, a[2] + b[2]]
        ELSE IF a[2] + b[2] >= sh THEN DyNorm[q + up, a[2] + b[2] - sh]
        ELSE DyNorm[(q + up) * (2 ^ (sh - a[2] - b[2])), 0]
F32Zero == <<0, 0>>
F32One == <<1, 0>>

\* line 262: decomposed.map(|x| if x < 0.0 { 0.0 } else { x })
clip(decomposed) ==
    [i \in DOMAIN decomposed |->
        IF F32LtS(decomposed[i], F32Zero) THEN F32Zero ELSE decomposed[i]]
\* line 263: DVector::sum folds the entries from zero, in order
vec_sum_from[v \in Seq(Int \X Nat), i \in Nat, acc \in Int \X Nat] ==
    IF i > Len(v) THEN acc ELSE vec_sum_from[v, i + 1, F32AddS[acc, v[i]]]
vec_sum(v) == vec_sum_from[v, 1, F32Zero]
\* lines 258-261: decomposed + error, entry by entry
add_error(decomposed, error) ==
    IF error = None THEN decomposed
    ELSE [i \in DOMAIN decomposed |-> F32AddS[decomposed[i], error[1][i]]]
\* lines 269-272: the while loop, from index (counted from 0) on
index_loop[decomposed_clipped \in Seq(Int \X Nat), index \in Nat, noise \in Int \X Nat] ==
    IF index + 1 < Len(decomposed_clipped)
       /\ ~F32LtS(noise, decomposed_clipped[index + 1])
    THEN index_loop[decomposed_clipped, index + 1,
                    F32SubS[noise, decomposed_clipped[index + 1]]]
    ELSE index
\* line 275: DVector::argmax, the first of the largest entries
argmax(v) ==
    CHOOSE i \in 0 .. Len(v) - 1 :
        /\ \A j \in 0 .. Len(v) - 1 : ~F32LtS(v[i + 1], v[j + 1])
        /\ \A j \in 0 .. i - 1 : F32LtS(v[j + 1], v[i + 1])
\* lines 264-276
quantize_index(decomposed, noise) ==
    LET decomposed_clipped == clip(decomposed)
        decomposed_clipped_sum == vec_sum(decomposed_clipped)
    IN  IF noise # None /\ F32LtS(F32Zero, decomposed_clipped_sum)
        THEN index_loop[decomposed_clipped, 0,
                        F32MulWide[noise[1], decomposed_clipped_sum]]
        ELSE argmax(decomposed)
\* lines 251-285; self is the strategy's palette, decomposed what
\* self.decompose_fn answers for the source colour, noise the other half
\* of source; returns [target, error, index]
DecomposingDitherStrategy_quantize(self, decomposed0, noise, error) ==
    LET decomposed == add_error(decomposed0, error) IN
    CHOOSE r \in {[target |-> self[index + 1],
                   error |-> Some([decomposed EXCEPT
                                ![index + 1] = F32SubS[decomposed[index + 1], F32One]]),
                   index |-> index] :
                  index \in {quantize_index(decomposed, noise)}} : TRUE

\* ---- the calls diffuse_dither makes on the strategy
QuantPalette == <<"black", "white", "red">>
Dy(m, e) == <<m, e>>
\* what decompose_fn answers: weights of palette length
QuantDecomposed ==
    {<<Dy(1, 0), Dy(0, 0), Dy(0, 0)>>,
     <<Dy(0, 0), Dy(1, 0), Dy(0, 0)>>,
     <<Dy(1, 1), Dy(1, 1), Dy(0, 0)>>,
     <<Dy(1, 2), Dy(1, 1), Dy(1, 2)>>,
     <<Dy(0, 0), Dy(1, 2), Dy(3, 2)>>}
\* the error carried to the pixel
QuantErrors ==
    {None,
     Some(<<Dy(3, 26), Dy(0 - 11, 4), Dy(0 - 1, 2)>>),
     Some(<<Dy(1, 1), Dy(0 - 1, 2), Dy(0 - 1, 2)>>),
     Some(<<Dy(0 - 1, 3), Dy(1, 3), Dy(0, 0)>>),
     Some(<<Dy(0 - 1, 0), Dy(0 - 1, 0), Dy(0 - 1, 0)>>)}
\* the noise of the pixel, in [0, 1), or none
QuantNoises ==
    {None, Some(Dy(0, 0)), Some(Dy(1, 2)), Some(Dy(1, 1)), Some(Dy(3, 2)),
     Some(Dy(7, 3)), Some(Dy(2 ^ 23 - 1, 23))}

Quantize ==
    /\ qres = NoCall
    /\ \E decomposed \in QuantDecomposed, error \in QuantErrors,
          noise \in QuantNoises :
          qres' = [op |-> "quantize", decomposed |-> decomposed,
                   error |-> error, noise |-> noise,
                   ret |-> DecomposingDitherStrategy_quantize(
                              QuantPalette, decomposed, noise, error)]
    /\ UNCHANGED <<dvars, lvars, bvars, ovars, nvars>>

\* lines 236-243: AddAssign on the error the last quantize returned
DecomposedQuantizationError_add_assign(self, rhs) ==
    IF rhs = None THEN self
    ELSE IF self = None THEN rhs
    ELSE Some([i \in DOMAIN self[1] |-> F32AddS[self[1][i], rhs[1][i]]])
ErrorAddAssign ==
    /\ qres # NoCall /\ qres.op = "quantize"
    /\ \E rhs \in QuantErrors :
          qres' = [op |-> "add_assign", self |-> qres.ret.error, rhs |-> rhs,
                   ret |-> DecomposedQuantizationError_add_assign(qres.ret.error, rhs)]
    /\ UNCHANGED <<dvars, lvars, bvars, ovars, nvars>>

DIdle ==
    /\ pc = "idle" /\ matrix = "NoDiffuse" /\ serpentine = FALSE
    /\ inout = NewImage(0, 0) /\ width = 0 /\ height = 0
    /\ error_divisor = 0 /\ errors_height = 0 /\ errors = << >>
    /\ y = 0 /\ range = RangeWithDir_new(0, 0, 0) /\ calls = << >>
LIdle == lp = Unbuilt /\ lres = NoCall
BIdle == colors = << >> /\ dec = Unbuilt /\ bres = NoCall
OIdle == ocolors = << >> /\ odec = Unbuilt /\ ores = NoCall
NIdle == nres = NoCall
QIdle == qres = NoCall

Init == DInit /\ LIdle /\ BIdle /\ OIdle /\ NIdle /\ QIdle
Next == Setup \/ RowBegin \/ PixelStep \/ RowEnd \/ Return
Spec == Init /\ [][Next]_vars

LineInit == DIdle /\ LIdle /\ BIdle /\ OIdle /\ NIdle /\ QIdle
LineNext == LineNew \/ LineProject \/ LineClippingProject
SpecLine == LineInit /\ [][LineNext]_vars

BruteInit == DIdle /\ LIdle /\ BIdle /\ OIdle /\ NIdle /\ QIdle
BruteNext == BruteNew \/ BruteDecompose
SpecBrute == BruteInit /\ [][BruteNext]_vars

OctaInit == DIdle /\ LIdle /\ BIdle /\ OIdle /\ NIdle /\ QIdle
OctaNext == OctaNew \/ OctaDecompose \/ OctaGetAxisFromColor
SpecOcta == OctaInit /\ [][OctaNext]_vars

NoiseInit == DIdle /\ LIdle /\ BIdle /\ OIdle /\ NIdle /\ QIdle
NoiseNext == CallBayerInf \/ CallBayer \/ CallInterleavedGradientNoise
SpecNoise == NoiseInit /\ [][NoiseNext]_vars

QuantInit == DIdle /\ LIdle /\ BIdle /\ OIdle /\ NIdle /\ QIdle
QuantNext == Quantize \/ ErrorAddAssign
SpecQuant == QuantInit /\ [][QuantNext]_vars

\* =====================================================================
\* Properties of diffuse_dither
\* =====================================================================
SourceAt(x, yy) == SourcePixel(inout.w, x, yy)

\* C1: with the NoDiffuse kernel every quantize call gets the source pixel
\* of its own position and the default error, the pixel written at that
\* position is the target of that call, and the finished image is the
\* pointwise quantization of the source, whatever the serpentine flag.
C1_NoDiffusePointwise ==
    matrix = "NoDiffuse" =>
        /\ \A i \in DOMAIN calls :
              LET c == calls[i] IN
              /\ c.source = SourceAt(c.x, c.y)
              /\ c.error = ErrDefault
              /\ inout.target[<<c.x, c.y>>] = Some(c.target)
        /\ pc = "done" =>
              \A p \in Pos(inout.w, inout.h) :
                 inout.target[p] = Some(quantize(SourceAt(p[1], p[2]), ErrDefault)[1])

C1_Witness ==
    /\ pc = "done" /\ matrix = "NoDiffuse" /\ serpentine
    /\ inout.w >= 2 /\ inout.h >= 2
    /\ Len(calls) = inout.w * inout.h

\* the i-th position of the scan: rows ascending, x ascending except on odd
\* rows in serpentine mode
ScanPosition(i, w, serp) ==
    LET row == (i - 1) \div w
        col == (i - 1) % w
    IN  <<IF serp /\ row % 2 = 1 THEN (w - 1) - col ELSE col, row>>

ScanOrderSoFar ==
    /\ pc # "panic"
    /\ Len(calls) <= inout.w * inout.h
    /\ \A i \in DOMAIN calls :
          <<calls[i].x, calls[i].y>> = ScanPosition(i, inout.w, serpentine)
    /\ pc = "done" =>
          /\ Len(calls) = inout.w * inout.h
          /\ \A p \in Pos(inout.w, inout.h) : inout.target[p] # None

\* the number of steps diffuse_dither still has to take
StepsLeft ==
    CASE pc = "entry" -> inout.h * (inout.w + 2) + 2
      [] pc = "rows" -> (inout.h - y) * (inout.w + 2) + 1
      [] pc = "cols" -> (inout.h - y - 1) * (inout.w + 2) + 2
                          + (range.max_exclusive - range.min_inclusive)
      [] OTHER -> 0

\* C2: for every width and height diffuse_dither terminates (every step
\* lowers the number of steps left, which never drops below 0, and it is
\* always at a position of the loops or has returned), having visited each
\* pixel exactly once, rows ascending and x ascending inside a row, except
\* descending on odd rows when serpentine is set.
C2_ScanOrder ==
    /\ []ScanOrderSoFar
    /\ [](pc \in {"entry", "rows", "cols", "done"})
    /\ [][StepsLeft' < StepsLeft /\ StepsLeft' >= 0]_vars

C2_Witness ==
    /\ pc = "done" /\ matrix = "FloydSteinberg" /\ serpentine
    /\ inout.w = 4 /\ inout.h = 2
    /\ [i \in 5 .. 8 |-> calls[i].x] = [i \in 5 .. 8 |-> 8 - i]

\* the sum of the weights of the targets of call c whose destination is pos
RECURSIVE WeightInto(_, _, _)
WeightInto(c, pos, k) ==
    IF k = 0 THEN 0
    ELSE LET t == targets(matrix)[k]
         IN  WeightInto(c, pos, k - 1)
             + (IF <<c.x + t[1] * c.dir, c.y + t[2]>> = pos THEN t[3] ELSE 0)

\* what a full-image error plane holds for the pixel of call i, divided
PlaneError(i) ==
    [s \in ErrBasis |->
        IF \E j \in 1 .. (i - 1) : calls[j].source = s
        THEN LET j == CHOOSE j \in 1 .. (i - 1) : calls[j].source = s
             IN  Rat(WeightInto(calls[j], <<calls[i].x, calls[i].y>>,
                                Len(targets(matrix))),
                     divisor(matrix))
        ELSE RZero]

\* C3: the error passed to quantize at a pixel is what a full-image error
\* plane would hold there: the sum of residual * weight over the earlier
\* pixels and targets whose destination it is, divided by the divisor.
C3_RollingBufferIsErrorPlane ==
    \A i \in DOMAIN calls : calls[i].error = PlaneError(i)

\* C4: residual * weight is added for a target if and only if its
\* destination (x + dx * dir, y + dy) lies inside the image.
C4_AddedIffInBounds ==
    \A i \in DOMAIN calls : \A k \in DOMAIN targets(matrix) :
        LET c == calls[i]
            t == targets(matrix)[k]
            tx == c.x + t[1] * c.dir
            ty == c.y + t[2]
            added == {n \in DOMAIN c.writes : c.writes[n].k = k}
        IN  /\ (0 <= tx /\ tx < width /\ 0 <= ty /\ ty < height) <=> added # {}
            /\ \A n \in added : c.writes[n].tx = tx /\ c.writes[n].ty = ty

MaxVerticalKernelOffset(m) ==
    IF targets(m) = << >> THEN 0
    ELSE SeqMax([i \in DOMAIN targets(m) |-> targets(m)[i][2]])

\* C5: the rolling buffer holds width * (1 + maxVerticalKernelOffset)
\* accumulators: 2 rows for Floyd-Steinberg, 3 for the other kernels.
C5_BufferSize ==
    pc \notin {"entry", "idle"} =>
        /\ errors_height = 1 + MaxVerticalKernelOffset(matrix)
        /\ Cardinality(DOMAIN errors) = width * (1 + MaxVerticalKernelOffset(matrix))

\* the sum of the weights of a sequence of targets (dx, dy, mul)
RECURSIVE WeightSum(_)
WeightSum(ts) == IF ts = << >> THEN 0 ELSE ts[1][3] + WeightSum(Tail(ts))
\* every target of the pixel of call c has its destination in the image
AllTargetsInBounds(c) ==
    \A k \in DOMAIN targets(matrix) :
        LET t == targets(matrix)[k] IN
        /\ c.x + t[1] * c.dir \in 0 .. inout.w - 1
        /\ c.y + t[2] \in 0 .. inout.h - 1
\* the targets call c added to the buffer
Added(c) == [j \in DOMAIN c.writes |-> targets(matrix)[c.writes[j].k]]

\* C24: the kernels are constant tables: no-op with divisor 1 and no
\* target, Floyd-Steinberg 16 and 4, Jarvis-Judice-Ninke 48 and 12,
\* Atkinson 8 and 6, Sierra 32 and 10; among the kernels with targets only
\* Atkinson has weights that do not sum to the divisor (6 of 8), so that
\* with Floyd-Steinberg, Jarvis-Judice-Ninke and Sierra a pixel with all
\* its targets in bounds passes on its whole residual.
C24_KernelTables ==
    /\ divisor("NoDiffuse") = 1 /\ Len(targets("NoDiffuse")) = 0
    /\ divisor("FloydSteinberg") = 16 /\ Len(targets("FloydSteinberg")) = 4
    /\ divisor("JarvisJudiceAndNinke") = 48
    /\ Len(targets("JarvisJudiceAndNinke")) = 12
    /\ divisor("Atkinson") = 8 /\ Len(targets("Atkinson")) = 6
    /\ divisor("Sierra") = 32 /\ Len(targets("Sierra")) = 10
    /\ WeightSum(targets("Atkinson")) = 6
    /\ \A m \in Kernels \ {"NoDiffuse", "Atkinson"} :
          WeightSum(targets(m)) = divisor(m)
    /\ \A i \in DOMAIN calls :
          (matrix \notin {"NoDiffuse", "Atkinson"} /\ AllTargetsInBounds(calls[i]))
             => WeightSum(Added(calls[i])) = error_divisor

\* (dx, dy, mul) is a forward offset
IsForward(t) == t[2] >= 0 /\ (t[2] = 0 => t[1] > 0)
\* the pixels visited up to and including call i
VisitedUpTo(i) == {<<calls[j].x, calls[j].y>> : j \in 1 .. i}

\* C25: every target of every supplied kernel is a forward offset (dy >= 0,
\* and dx > 0 when dy = 0); so in both scan directions diffuse_dither never
\* adds error to the current pixel or to a pixel visited earlier in scan
\* order.
C25_ForwardOffsets ==
    /\ \A m \in Kernels : \A k \in DOMAIN targets(m) : IsForward(targets(m)[k])
    /\ \A i \in DOMAIN calls : \A j \in DOMAIN calls[i].writes :
          <<calls[i].writes[j].tx, calls[i].writes[j].ty>> \notin VisitedUpTo(i)

\* a pixel of a right-to-left row that is not the first of its row sends
\* error both into its own row and into the next one
C25_Witness ==
    /\ pc = "done" /\ serpentine /\ matrix = "JarvisJudiceAndNinke"
    /\ \E i \in DOMAIN calls :
          /\ calls[i].dir = 0 - 1 /\ calls[i].x < inout.w - 1
          /\ \E j \in DOMAIN calls[i].writes : calls[i].writes[j].ty = calls[i].y
          /\ \E j \in DOMAIN calls[i].writes : calls[i].writes[j].ty > calls[i].y

\* C27: diffuse_dither never faults on its own bookkeeping, for every image
\* size (width or height 0 included), both serpentine settings and every
\* kernel with dy >= 0: every index used on the error buffer is below
\* width * errors_height, every pixel coordinate passed to get_pixel and
\* put_pixel is inside the image, and neither the clamped additions nor
\* RangeWithDir subtract below 0.
C27_NoBookkeepingFault ==
    /\ pc # "panic"
    /\ range.min_inclusive <= range.max_exclusive
    /\ range.min_inclusive >= 0
    /\ pc \notin {"entry", "idle"} =>
          DOMAIN errors = 0 .. (width * errors_height - 1)
    /\ \A i \in DOMAIN calls :
          /\ <<calls[i].x, calls[i].y>> \in Pos(inout.w, inout.h)
          /\ calls[i].x + ((calls[i].y % errors_height) * width) \in DOMAIN errors
          /\ \A j \in DOMAIN calls[i].writes :
                /\ calls[i].writes[j].tx \in 0 .. width - 1
                /\ calls[i].writes[j].ty \in 0 .. height - 1
                /\ calls[i].writes[j].idx \in DOMAIN errors

\* a kernel that makes the buffer two rows high, with right-to-left rows:
\* the second row of the buffer is written, a target two rows down is
\* added, and a pixel of a right-to-left row adds some targets and drops
\* others
C27_Witness ==
    /\ pc = "done" /\ serpentine /\ errors_height = 2
    /\ inout.w >= 2 /\ inout.h >= 3
    /\ \E i \in DOMAIN calls :
          \E j \in DOMAIN calls[i].writes : calls[i].writes[j].idx >= width
    /\ \E i \in DOMAIN calls :
          \E j \in DOMAIN calls[i].writes : calls[i].writes[j].ty = calls[i].y + 2
    /\ \E i \in DOMAIN calls :
          /\ calls[i].dir = 0 - 1
          /\ calls[i].writes # << >>
          /\ Len(calls[i].writes) < Len(targets(matrix))

\* =====================================================================
\* Properties of LineProjector
\* =====================================================================
\* the integer coordinates of the vertices and of the query point
IntVec(p) == [i \in 1 .. 3 |-> p[i][1]]
IDot(u, v) == u[1] * v[1] + u[2] * v[2] + u[3] * v[3]
LineA == IntVec(lp.origin)
LineAB == IntVec(lp.direction)
LineLen2 == IDot(LineAB, LineAB)
\* dot(pt - a, b - a)
LineDot(pt) == IDot([i \in 1 .. 3 |-> IntVec(pt)[i] - LineA[i]], LineAB)
IsCall(op) == lres.op = op

\* C6: for a # b, project returns [1 - t, t] with
\* t = dot(pt - a, b - a) / |b - a|^2, and the two weights sum to 1.
C6_ProjectSumsToOne ==
    (IsCall("project") /\ LineLen2 # 0) =>
        LET t == lres.ret[2] IN
        /\ t[2] > 0 /\ t[1] * LineLen2 = LineDot(lres.pt) * t[2]
        /\ lres.ret[1] = RSub(ROne, t)
        /\ RAdd(lres.ret[1], lres.ret[2]) = ROne

C6_Witness ==
    /\ IsCall("project") /\ LineLen2 > 1
    /\ RLt(lres.ret[1], RZero)
    /\ RAdd(lres.ret[1], lres.ret[2]) = ROne

C8_DegenerateProject ==
    (IsCall("project") /\ (LineLen2 = 0 \/ lres.pt = lp.origin)) =>
        lres.ret = <<ROne, RZero>>

C8_Witness ==
    /\ IsCall("project") /\ LineLen2 = 0 /\ lres.pt # lp.origin
    /\ lres.ret = <<ROne, RZero>>

\* C9: building a line projector from two coincident points returns None.
C9_CoincidentIsNone ==
    (IsCall("new") /\ lres.a = lres.b) => lres.ret = Absent
\* =====================================================================
\* Properties of DecomposerBruteforce
\* =====================================================================
IsDecompose == bres.op = "decompose"
OneHot(n, i) == [g \in 1 .. n |-> IF g = i THEN ROne ELSE RZero]
\* the palette is one the interface allows: at least 2 distinct points
ValidPalette == Len(colors) >= 2 /\ Distinct(colors)
\* candidate c has palette entry i among its vertices
Uses(c, i) == \E l \in DOMAIN c.vertex_indices : c.vertex_indices[l] = i - 1
\* palette entry i lies in a tetrahedron, triangle or segment spanned by
\* other palette entries, that is, in the convex hull of the others
InSimplexOfOthers(i) ==
    \/ \E cs \in {in_tetras(dec, colors[i])} :
          \E k \in DOMAIN cs : ~Uses(cs[k], i)
    \/ \E cs \in {on_faces(dec, colors[i])} :
          \E k \in DOMAIN cs : ~Uses(cs[k], i) /\ RIsZero(cs[k].distance_sq)
    \/ \E cs \in {on_edges(dec, colors[i])} :
          \E k \in DOMAIN cs : ~Uses(cs[k], i) /\ RIsZero(cs[k].distance_sq)

\* C10 as stated: for a palette of at least 2 distinct points and either
\* strategy, decompose at a point equal to palette entry i returns the
\* one-hot vector at i, for every i (entries inside the hull of the others
\* included).
C10_OneHotAtEveryEntry ==
    (IsDecompose /\ ValidPalette) =>
        \A i \in DOMAIN colors :
            colors[i] = bres.pt => bres.ret = OneHot(Len(colors), i)

\* C10 amended: DecomposerBruteforce::decompose at a point equal to palette
\* entry i returns the one-hot vector at i, under both strategies, when
\* entry i is not in the hull of the other entries; and under FavorDominant
\* also when it is, provided some tetrahedron of the palette covers it.
C10_OneHotAtHullVertex ==
    (IsDecompose /\ ValidPalette) =>
        \A i \in DOMAIN colors :
            colors[i] = bres.pt =>
                /\ ~InSimplexOfOthers(i) => bres.ret = OneHot(Len(colors), i)
                /\ (bres.strategy = "FavorDominant" /\ bres.kind = "tetra")
                       => bres.ret = OneHot(Len(colors), i)

\* a hull vertex of a palette that also has an entry inside the hull of the
\* others, decomposed under FavorMix by a covering tetrahedron
C10_Witness ==
    /\ IsDecompose /\ ValidPalette
    /\ bres.strategy = "FavorMix" /\ bres.kind = "tetra"
    /\ \E i \in DOMAIN colors :
          /\ colors[i] = bres.pt
          /\ ~InSimplexOfOthers(i)
          /\ bres.ret = OneHot(Len(colors), i)
    /\ \E j \in DOMAIN colors : InSimplexOfOthers(j)

\* the sum of a vector of weights
RSumFrom[v \in Seq(Q), i \in Nat, acc \in Q] ==
    IF i > Len(v) THEN acc ELSE RSumFrom[v, i + 1, RAdd(acc, v[i])]
RSum(v) == RSumFrom[v, 1, RZero]
\* pt lies in the convex hull of the palette: in one of its tetrahedra,
\* triangles or segments
InHull(pt) ==
    \/ in_tetras(dec, pt) # << >>
    \/ \E cs \in {on_faces(dec, pt)} :
          \E k \in DOMAIN cs : RIsZero(cs[k].distance_sq)
    \/ \E cs \in {on_edges(dec, pt)} :
          \E k \in DOMAIN cs : RIsZero(cs[k].distance_sq)
\* palette index g (from 1) is a vertex of the simplex decompose chose
Chosen(g) == \E l \in DOMAIN bres.vertex_indices : bres.vertex_indices[l] = g - 1

\* C11: for a point inside the palette's convex hull, decompose (either
\* strategy) returns a vector of length N with all entries >= 0, summing to
\* 1, and exactly 0 at every palette index outside the chosen simplex,
\* which is a covering tetrahedron whenever one exists.
C11_ConvexWeights ==
    (IsDecompose /\ InHull(bres.pt)) =>
        /\ Len(bres.ret) = Len(colors)
        /\ \A g \in DOMAIN bres.ret : ~RLt(bres.ret[g], RZero)
        /\ RSum(bres.ret) = ROne
        /\ \A g \in DOMAIN bres.ret : ~Chosen(g) => bres.ret[g] = RZero
        /\ in_tetras(dec, bres.pt) # << >> => bres.kind = "tetra"

\* a point strictly inside a tetrahedron of a 5-colour palette, decomposed
\* into four positive weights and one zero
C11_Witness ==
    /\ IsDecompose /\ InHull(bres.pt) /\ bres.kind = "tetra"
    /\ Len(colors) = 5 /\ bres.pt = Pt(1, 1, 1)
    /\ \A i \in DOMAIN colors : colors[i] # bres.pt
    /\ \E g \in DOMAIN bres.ret : bres.ret[g] = RZero /\ ~Chosen(g)
    /\ \A g \in DOMAIN bres.ret : Chosen(g) => RGt(bres.ret[g], RZero)

IsNew == bres.op = "new"
\* the strictly increasing k-tuples of palette indices (from 0)
IndexTuples(k) ==
    {t \in [1 .. k -> 0 .. (Len(colors) - 1)] :
        \A j \in 1 .. (k - 1) : t[j] < t[j + 1]}
PointsAt(t) == [j \in DOMAIN t |-> colors[t[j] + 1]]
\* the combinations of k indices whose projector construction succeeds
Buildable(k) == {t \in IndexTuples(k) : new_projector(k, PointsAt(t)) # Absent}
\* list holds, once each and in combination order, exactly the buildable
\* combinations of k indices, each with the projector of its own points
KeptExactly(list, k) ==
    /\ {list[n][2] : n \in DOMAIN list} = Buildable(k)
    /\ Len(list) = Cardinality(Buildable(k))
    /\ \A n \in DOMAIN list : list[n][1] = new_projector(k, PointsAt(list[n][2]))
    /\ \A n \in DOMAIN list : \A m \in DOMAIN list :
          n < m => \E j \in 1 .. k :
                      /\ list[n][2][j] < list[m][2][j]
                      /\ \A h \in 1 .. (j - 1) : list[n][2][h] = list[m][2][h]

\* C12: DecomposerBruteforce::new tries every 4-, 3- and 2-combination of
\* palette indices, skips the combinations whose projector construction
\* reports degeneracy, returns None iff no projector at all was built (in
\* particular for 0 or 1 points), and tags every kept projector with the
\* indices it was built from.
C12_NewKeepsBuildable ==
    IsNew =>
        /\ dec = Absent <=> (Buildable(4) = {} /\ Buildable(3) = {} /\ Buildable(2) = {})
        /\ Len(colors) <= 1 => dec = Absent
        /\ dec # Absent =>
              /\ dec.num_colors = Len(colors)
              /\ KeptExactly(dec.tetras, 4)
              /\ KeptExactly(dec.faces, 3)
              /\ KeptExactly(dec.edges, 2)

\* a palette with a collinear triple and four coplanar points: the
\* degenerate triangle and tetrahedron are skipped, the rest is built
C12_Witness ==
    /\ IsNew /\ dec # Absent /\ Len(colors) = 4 /\ Distinct(colors)
    /\ Len(dec.tetras) = 0
    /\ Len(dec.faces) = 3
    /\ Len(dec.edges) = 6

\* C13: for a decomposer built from at least 2 distinct points, decompose
\* never reaches its panic branch, for any query point and strategy: when
\* no tetrahedron covers the point an edge candidate exists.
C13_NeverPanics ==
    (IsDecompose /\ ValidPalette) =>
        /\ bres.kind # "panic"
        /\ Len(bres.ret) = Len(colors)
        /\ bres.kind # "tetra" => on_edges(dec, bres.pt) # << >>

\* a point outside the hull for which faces exist but none qualifies, so
\* that only the edges are left
C13_Witness ==
    /\ IsDecompose /\ ValidPalette
    /\ in_tetras(dec, bres.pt) = << >>
    /\ dec.faces # << >> /\ on_faces(dec, bres.pt) = << >>
    /\ bres.kind = "edge"

\* the palette indices (from 1) at which decompose returned a weight
\* other than 0
NonZero == {g \in DOMAIN bres.ret : bres.ret[g] # RZero}

\* C26: for a built decomposer, any query point, inside the hull of the
\* palette or outside, and either strategy, decompose returns a vector of
\* length N with every entry >= 0, the entries summing to 1, and at most 4
\* of them other than 0, all of them vertices of the one simplex chosen.
C26_WeightsForAnyPoint ==
    IsDecompose =>
        /\ Len(bres.ret) = Len(colors)
        /\ \A g \in DOMAIN bres.ret : ~RLt(bres.ret[g], RZero)
        /\ RSum(bres.ret) = ROne
        /\ Cardinality(NonZero) <= 4
        /\ \A g \in NonZero : Chosen(g)

\* a point outside the hull of 5 colours, brought back into the interior
\* of a face: three weights above 0
C26_Witness ==
    /\ IsDecompose /\ Len(colors) = 5 /\ Distinct(colors)
    /\ ~InHull(bres.pt)
    /\ bres.kind = "face" /\ Cardinality(NonZero) = 3

\* =====================================================================
\* Properties of OctahedronDecomposer
\* =====================================================================
IsOctaNew == ores.op = "new"
\* the two poles of axis k (0 .. 2) coincide
PolesCoincide(k) ==
    ocolors[ores.opposite_map[k + 1][1] + 1] = ocolors[ores.opposite_map[k + 1][2] + 1]

\* C14: OctahedronDecomposer::new returns None when the palette does not
\* have exactly 6 points, when the opposite-pair search fails, or when one
\* of the 3 axes fails to build (its projector fails or its poles
\* coincide); otherwise it returns a decomposer with all 3 axes built: it
\* always returns.
C14_OctaNewAllOrNothing ==
    IsOctaNew =>
        /\ odec = Absent <=>
              \/ Len(ocolors) # 6
              \/ ores.opposite_map = Absent
              \/ \E k \in 0 .. 2 : ~ores.oks[k] \/ PolesCoincide(k)
        /\ odec # Absent =>
              /\ DOMAIN odec.axis = 1 .. 3
              /\ \A k \in 0 .. 2 :
                    /\ odec.axis[k + 1] # Absent
                    /\ odec.axis[k + 1].poles = ores.opposite_map[k + 1]

\* six points with a pairing, two axes built and only the last one
\* refused by its projector: no decomposer
C14_Witness ==
    /\ IsOctaNew /\ Len(ocolors) = 6 /\ ores.opposite_map # Absent
    /\ ores.oks = [k \in 0 .. 2 |-> k # 2]
    /\ \A k \in 0 .. 2 : ~PolesCoincide(k)
    /\ odec = Absent

IsOctaDecompose == ores.op = "decompose"
\* the position (from 1) that palette index c has among the vertices of
\* axis k: its poles first, then the other two pairs interleaved
LocalPosition(k, c) ==
    LET opp == ores.opposite_map
        order == <<opp[k + 1][1], opp[k + 1][2],
                   opp[((k + 1) % 3) + 1][1], opp[((k + 2) % 3) + 1][1],
                   opp[((k + 1) % 3) + 1][2], opp[((k + 2) % 3) + 1][2]>>
    IN  CHOOSE v \in 1 .. 6 : order[v] = c
\* the weight axis k gives to palette index c (from 0)
AxisWeight(k, c) == ores.answers[k][1][LocalPosition(k, c)]
AxisInside(k) == ores.answers[k][2]

\* C20: with strategy Average, decompose returns (axis 0 + axis 1 +
\* axis 2) / 3 when axis 0 reports the point inside, whatever axes 1 and 2
\* report, and exactly the weights of axis 0 when it reports the point
\* outside.
C20_AverageStrategy ==
    (IsOctaDecompose /\ ores.strategy.tag = "Average") =>
        /\ DOMAIN ores.ret = 1 .. 6
        /\ \A c \in 0 .. 5 :
              ores.ret[c + 1] =
                 IF AxisInside(0)
                 THEN RDiv(RAdd(RAdd(AxisWeight(0, c), AxisWeight(1, c)),
                                AxisWeight(2, c)), RInt(3))
                 ELSE AxisWeight(0, c)

\* axis 0 inside, axis 1 outside: the three are averaged all the same
C20_Witness ==
    /\ IsOctaDecompose /\ ores.strategy.tag = "Average"
    /\ AxisInside(0) /\ ~AxisInside(1) /\ AxisInside(2)
    /\ ores.answers[0] # ores.answers[2]
    /\ ores.opposite_map # <<<<0, 1>>, <<2, 3>>, <<4, 5>>>>
    /\ \E c \in 0 .. 5 : ores.ret[c + 1] # AxisWeight(0, c)


\* the two poles of axis k (0 .. 2), the query point, in integers
PoleA(k) == IntVec(ocolors[ores.opposite_map[k + 1][1] + 1])
PoleB(k) == IntVec(ocolors[ores.opposite_map[k + 1][2] + 1])
ICross(u, v) ==
    <<u[2] * v[3] - u[3] * v[2], u[3] * v[1] - u[1] * v[3],
      u[1] * v[2] - u[2] * v[1]>>
IVSub(u, v) == [i \in 1 .. 3 |-> u[i] - v[i]]
\* |d x (o - pt)|^2 and |d|^2 for axis k, with o the first pole and d the
\* vector from the first pole to the second
AxisDistanceNum(k) ==
    LET cr == ICross(IVSub(PoleB(k), PoleA(k)), IVSub(PoleA(k), IntVec(ores.color)))
    IN  IDot(cr, cr)
AxisDistanceDen(k) ==
    IDot(IVSub(PoleB(k), PoleA(k)), IVSub(PoleB(k), PoleA(k)))
\* the line of axis j is strictly closer to the query point than that of k
Closer(j, k) ==
    AxisDistanceNum(j) * AxisDistanceDen(k) < AxisDistanceNum(k) * AxisDistanceDen(j)
\* the axis at the smallest (largest) distance, the lowest index on ties
ClosestAxis ==
    CHOOSE k \in 0 .. 2 :
        \A j \in 0 .. 2 : ~Closer(j, k) /\ (j < k => Closer(k, j))
FurthestAxis ==
    CHOOSE k \in 0 .. 2 :
        \A j \in 0 .. 2 : ~Closer(k, j) /\ (j < k => Closer(j, k))
\* decompose returned exactly the weights of axis k
ReturnsAxis(k) ==
    /\ DOMAIN ores.ret = 1 .. 6
    /\ \A c \in 0 .. 5 : ores.ret[c + 1] = AxisWeight(k, c)

\* C21: with Closest (Furthest) decompose returns the projection on the
\* one axis whose pole-to-pole line has the smallest (largest) squared
\* distance |d x (o - pt)|^2 / |d|^2 to the query point, the lowest axis
\* index on ties, nothing averaged; with Axis(k) it returns the projection
\* on axis k alone (k is taken modulo 3, so k = 0 .. 2 is axis k).
C21_ClosestFurthestAxis ==
    IsOctaDecompose =>
        /\ ores.strategy.tag = "Closest" => ReturnsAxis(ClosestAxis)
        /\ ores.strategy.tag = "Furthest" => ReturnsAxis(FurthestAxis)
        /\ ores.strategy.tag = "Axis" => ReturnsAxis(ores.strategy.axis % 3)

\* Closest with two axes tied for the smallest distance and a third one
\* further away, on poles at different distances apart: the lower of the
\* two tied axes is returned, and it is not axis 0
C21_Witness ==
    /\ IsOctaDecompose /\ ores.strategy.tag = "Closest"
    /\ ~Closer(1, 2) /\ ~Closer(2, 1) /\ Closer(1, 0)
    /\ AxisDistanceDen(0) # AxisDistanceDen(1)
    /\ ReturnsAxis(1) /\ ~ReturnsAxis(2) /\ ~ReturnsAxis(0)


IsGetAxisFromColor == ores.op = "get_axis_from_color"
\* the poles of axis k (0 .. 2) of the decomposer, as a set
PolesOf(k) == {odec.axis[k + 1].poles[1], odec.axis[k + 1].poles[2]}
\* local vertex v (0 .. 5) of axis k stands for this palette index
LocalToGlobal(k, v) ==
    CHOOSE c \in 0 .. 5 : odec.axis[k + 1].color_to_vertex_index[c] = v

\* C22: for a built decomposer get_axis_from_color(index) returns Some(k),
\* k in 0 .. 2, exactly when index is a pole of axis k, and None when it is
\* a pole of no axis (index >= 6); the pole pairs partition 0 .. 5, so
\* every index 0 .. 5 gets an axis and every axis two indices; the local
\* to global mapping of every axis is a permutation of 0 .. 5 with the two
\* poles first.
C22_GetAxisFromColor ==
    IsGetAxisFromColor =>
        /\ \A k \in 0 .. 2 : ores.ret = Some(k) <=> ores.color_index \in PolesOf(k)
        /\ ores.ret = None <=> \A k \in 0 .. 2 : ores.color_index \notin PolesOf(k)
        /\ ores.ret = None <=> ores.color_index >= 6
        /\ \A k \in 0 .. 2 :
              /\ Cardinality(PolesOf(k)) = 2
              /\ \A j \in 0 .. 2 : j # k => PolesOf(j) \cap PolesOf(k) = {}
        /\ PolesOf(0) \cup PolesOf(1) \cup PolesOf(2) = 0 .. 5
        /\ \A k \in 0 .. 2 :
              /\ \A v \in 0 .. 5 :
                    \E c \in 0 .. 5 : odec.axis[k + 1].color_to_vertex_index[c] = v
              /\ LocalToGlobal(k, 0) = odec.axis[k + 1].poles[1]
              /\ LocalToGlobal(k, 1) = odec.axis[k + 1].poles[2]

\* the second pole of the last axis, which is not the last palette index
C22_Witness ==
    /\ IsGetAxisFromColor
    /\ ores.color_index = odec.axis[3].poles[2] /\ ores.color_index # 5
    /\ ores.ret = Some(2)

\* =====================================================================
\* Properties of the noise functions
\* =====================================================================
IsBayerInf == nres.op = "bayer_inf"
IsBayer == nres.op = "bayer"
\* the number whose base-4 digits, most significant first, are the
\* entries B[y_i][x_i] of the canonical matrix for bit i = 0, 1, .. n-1
CanonicalRank(x, yy, n) ==
    LET B == <<<<0, 2>>, <<3, 1>>>>
        digit(i) == B[((yy \div (2 ^ i)) % 2) + 1][((x \div (2 ^ i)) % 2) + 1]
        rank[i \in 0 .. n] ==
            IF i = 0 THEN 0 ELSE 4 * rank[i - 1] + digit(i - 1)
    IN  rank[n]
\* the number of bits of the larger coordinate
BitsOf(x, yy) == BitLen[IF x > yy THEN x ELSE yy]

\* C15: bayer_inf is the canonical recursive Bayer matrix: for x, y in
\* 0 .. 3, 16 * bayer_inf(x, y) = 4 * B[y mod 2][x mod 2] + B[y div 2][x div 2];
\* for every n, on 0 <= x, y < 2^n it is the bijection (x, y) -> k / 4^n
\* with k the canonical rank, so that no two points share a value and every
\* value is in [0, 1).
C15_BayerInfCanonical ==
    IsBayerInf =>
        /\ (nres.x <= 3 /\ nres.y <= 3) =>
              nres.ret = DyNorm[CanonicalRank(nres.x, nres.y, 2), 4]
        /\ nres.ret = DyNorm[CanonicalRank(nres.x, nres.y, BitsOf(nres.x, nres.y)),
                             2 * BitsOf(nres.x, nres.y)]
        /\ \A x \in NoiseCoords, yy \in NoiseCoords :
              bayer_inf(x, yy) = nres.ret => (x = nres.x /\ yy = nres.y)
        /\ DyLt(nres.ret, F32FromInt(1))

\* C16: bayer(x, y, maxDepth) is bayer_inf cut off after maxDepth
\* iterations: bayer(x, y, d) = bayer_inf(x mod 2^d, y mod 2^d); it has
\* period 2^d in x and in y, equals bayer_inf(x, y) when x, y < 2^d, and
\* bayer(x, y, 0) = 0.
C16_BayerIsTruncatedBayerInf ==
    IsBayer =>
        LET period == 2 ^ nres.max_depth IN
        /\ nres.ret = bayer_inf(nres.x % period, nres.y % period)
        /\ nres.ret = bayer(nres.x + period, nres.y, nres.max_depth)
        /\ nres.ret = bayer(nres.x, nres.y + period, nres.max_depth)
        /\ (nres.x < period /\ nres.y < period) => nres.ret = bayer_inf(nres.x, nres.y)
        /\ nres.max_depth = 0 => nres.ret = F32FromInt(0)

\* a point outside the first tile of the 4x4 matrix: its value is that of
\* the point it is tiled from, not bayer_inf's
C16_Witness ==
    /\ IsBayer /\ nres.max_depth = 2 /\ nres.x = 5 /\ nres.y = 3
    /\ nres.ret = bayer_inf(1, 3)
    /\ nres.ret # bayer_inf(5, 3)
    /\ nres.ret # F32FromInt(0)

IsInterleavedGradientNoise == nres.op = "interleaved_gradient_noise"
\* C17: interleaved_gradient_noise(x, y) is
\* fract(52.9829189 * fract(0.06711056 * x + 0.00583715 * y)), with exactly
\* these three constants, and lies in [0, 1) for x, y >= 0.
C17_InterleavedGradientNoise ==
    IsInterleavedGradientNoise =>
        /\ nres.ret = fract_mul((nres.x * 6711056 + nres.y * 583715) % (10 ^ 8),
                                529829189)
        /\ nres.ret[1] \in 0 .. 999
        /\ \A k \in 2 .. 4 : nres.ret[k] \in 0 .. 9999

\* =====================================================================
\* Properties of DecomposerBruteforce::decompose, step by step
\* =====================================================================
\* the weights every tetrahedron of the decomposer gives the query point
TetraWeights ==
    [i \in DOMAIN dec.tetras |-> TetrahedronProjector_project(dec.tetras[i][1], bres.pt)]
\* the largest entry of a vector of weights
MaxEntry(w) == CHOOSE m \in {w[j] : j \in DOMAIN w} : \A j \in DOMAIN w : ~RGt(w[j], m)
\* the tetrahedra whose weights in ws are all >= 0
Covering(ws) == {i \in DOMAIN ws : \A j \in DOMAIN ws[i] : ~RLt(ws[i][j], RZero)}
\* tetrahedron i is the first of those in cov whose largest weight is
\* smallest (FavorMix) or largest (FavorDominant)
IsFavoured(i, cov, ws) ==
    /\ i \in cov
    /\ \A k \in cov :
          IF bres.strategy = "FavorMix"
          THEN /\ ~RLt(MaxEntry(ws[k]), MaxEntry(ws[i]))
               /\ MaxEntry(ws[k]) = MaxEntry(ws[i]) => i <= k
          ELSE /\ ~RGt(MaxEntry(ws[k]), MaxEntry(ws[i]))
               /\ MaxEntry(ws[k]) = MaxEntry(ws[i]) => i <= k
\* the weights w of the simplex with the palette indices vi (from 0), as
\* a vector over the whole palette
Spread(w, vi) ==
    [g \in 1 .. Len(colors) |->
        IF \E l \in DOMAIN vi : vi[l] = g - 1
        THEN w[CHOOSE l \in DOMAIN vi : vi[l] = g - 1]
        ELSE RZero]

\* C18: the covering candidates are exactly the tetrahedra whose weights
\* are all >= 0; when there is one, decompose returns the weights of the
\* covering tetrahedron whose largest weight is smallest (FavorMix) or
\* largest (FavorDominant), the first in combination order among equals,
\* and no face or edge; when there is none it returns no tetrahedron.
C18_TetraSelection ==
    IsDecompose =>
        \A ws \in {TetraWeights} :
            /\ bres.kind = "tetra" <=> Covering(ws) # {}
            /\ bres.kind = "tetra" =>
                  \E i \in Covering(ws) :
                      /\ IsFavoured(i, Covering(ws), ws)
                      /\ bres.vertex_indices = dec.tetras[i][2]
                      /\ bres.ret = Spread(ws[i], dec.tetras[i][2])

\* several tetrahedra cover the point and FavorDominant does not keep the
\* first of them
C18_Witness ==
    /\ IsDecompose /\ bres.kind = "tetra" /\ bres.strategy = "FavorDominant"
    /\ \A ws \in {TetraWeights} :
          /\ Cardinality(Covering(ws)) >= 3
          /\ \E i \in Covering(ws) :
                /\ bres.vertex_indices = dec.tetras[i][2]
                /\ \E k \in Covering(ws) : k < i
                /\ \E k \in Covering(ws) : k > i /\ MaxEntry(ws[k]) = MaxEntry(ws[i])

\* the weighted sum of the points ps
Combine(w, ps) ==
    LET acc[n \in 0 .. Len(ps)] ==
            IF n = 0 THEN Pt(0, 0, 0) ELSE VAdd(acc[n - 1], VScale(ps[n], w[n]))
    IN  acc[Len(ps)]
DistanceSq(p, q) == norm_squared(VSub(p, q))
\* for every face of the decomposer: its weights for the query point,
\* whether they are all >= 0, and the squared distance of the point to the
\* foot of its perpendicular on the face
FaceCandidates ==
    [i \in DOMAIN dec.faces |->
        LET w == TriangleProjector_project(dec.faces[i][1], bres.pt)[1]
            vs == [j \in 1 .. 3 |-> colors[dec.faces[i][2][j] + 1]]
        IN  [w |-> w,
             ok |-> \A j \in 1 .. 3 : ~RLt(w[j], RZero),
             d |-> DistanceSq(bres.pt, Combine(w, vs))]]
\* for every edge: the weights of the point of the segment closest to the
\* query point, and the squared distance to it
EdgeCandidates ==
    [i \in DOMAIN dec.edges |->
        LET a == colors[dec.edges[i][2][1] + 1]
            b == colors[dec.edges[i][2][2] + 1]
            ab == VSub(b, a)
            t == IF a = b THEN RZero
                 ELSE RDiv(dot(VSub(bres.pt, a), ab), norm_squared(ab))
            tc == IF RLt(t, RZero) THEN RZero ELSE IF RGt(t, ROne) THEN ROne ELSE t
        IN  [w |-> <<RSub(ROne, tc), tc>>,
             d |-> DistanceSq(bres.pt, VAdd(a, VScale(ab, tc)))]]
\* the least of a non-empty set of numbers
MinOver(S) == CHOOSE m \in S : \A x \in S : ~RLt(x, m)
\* candidate i of cs (the candidates of list) is what decompose returned
Returned(i, cs, list) ==
    /\ bres.vertex_indices = list[i][2]
    /\ bres.ret = Spread(cs[i].w, list[i][2])

\* C19: when no tetrahedron covers the point, decompose keeps the faces
\* whose weights are all >= 0 with their squared perpendicular distance,
\* takes for every edge the closest point of the segment and its squared
\* distance, and returns the closest qualifying face or the closest edge,
\* whichever is closer (the face when equally close), or the only kind
\* there is.
C19_FaceEdgeFallback ==
    (IsDecompose /\ bres.kind # "tetra") =>
        \A fs \in {FaceCandidates}, es \in {EdgeCandidates} :
            LET F == {i \in DOMAIN fs : fs[i].ok}
                E == DOMAIN es
                UseEdge ==
                    /\ E # {}
                    /\ F # {} => RLt(MinOver({es[i].d : i \in E}),
                                     MinOver({fs[i].d : i \in F}))
            IN  /\ in_tetras(dec, bres.pt) = << >>
                /\ bres.kind \in {"face", "edge"}
                /\ bres.kind = "edge" <=> UseEdge
                /\ bres.kind = "edge" =>
                      \E i \in E : /\ es[i].d = MinOver({es[k].d : k \in E})
                                   /\ Returned(i, es, dec.edges)
                /\ bres.kind = "face" =>
                      \E i \in F : /\ fs[i].d = MinOver({fs[k].d : k \in F})
                                   /\ Returned(i, fs, dec.faces)

\* a point as close to a qualifying face as to the closest edge, while
\* another face does not qualify: the face is returned, as a mixture
C19_Witness ==
    /\ IsDecompose /\ bres.kind = "face" /\ ValidPalette
    /\ \A fs \in {FaceCandidates}, es \in {EdgeCandidates} :
          /\ MinOver({es[i].d : i \in DOMAIN es})
                = MinOver({fs[i].d : i \in {k \in DOMAIN fs : fs[k].ok}})
          /\ \E i \in DOMAIN fs : ~fs[i].ok
    /\ \A g \in DOMAIN bres.ret : bres.ret[g] # ROne

\* =====================================================================
\* Properties of DecomposingDitherStrategy
\* =====================================================================
IsQuantize == qres.op = "quantize"
\* a value times 2^26, an integer for every weight used here
Scaled(v) == v[1] * (2 ^ (26 - v[2]))
\* w: the decomposed weights plus the carried error, as quantize holds
\* them; c: w clipped at 0; both times 2^26
QuantUnclipped == add_error(qres.decomposed, qres.error)
QuantW == [i \in 1 .. 3 |-> Scaled(QuantUnclipped[i])]
QuantC == [i \in 1 .. 3 |-> IF QuantW[i] < 0 THEN 0 ELSE QuantW[i]]
QuantS == QuantC[1] + QuantC[2] + QuantC[3]
\* c_0 + ... + c_k, k from 0
QuantPrefix(k) ==
    IF k = 0 THEN QuantC[1]
    ELSE IF k = 1 THEN QuantC[1] + QuantC[2] ELSE QuantS
\* the exact product of two naturals below 2^29, as three digits, the two
\* lower ones in base 2^15
WideProduct(a, b) ==
    LET B == 32768
        mid == (a \div B) * (b % B) + (a % B) * (b \div B)
        low == (a % B) * (b % B)
        t1 == (low \div B) + (mid % B)
    IN  <<(t1 \div B) + (mid \div B) + (a \div B) * (b \div B), t1 % B, low % B>>
WideLess(p, q) ==
    \/ p[1] < q[1]
    \/ p[1] = q[1] /\ p[2] < q[2]
    \/ p[1] = q[1] /\ p[2] = q[2] /\ p[3] < q[3]
\* n * S < c_0 + ... + c_k, for the noise n = m / 2^e
NoiseBelowPrefix(k) ==
    WideLess(WideProduct(qres.noise[1][1], QuantS),
             WideProduct(QuantPrefix(k), 2 ^ qres.noise[1][2]))

\* C23: with w the decomposed weights plus the carried error, c the
\* weights clipped at 0, S > 0 their sum and n the noise in [0, 1),
\* quantize chooses the smallest index k with n * S < c_0 + ... + c_k,
\* which has c_k > 0, returns palette[k], and returns as residual w with
\* 1 taken off entry k (w unclipped, the subtraction the one of f32).
C23_IndexSelection ==
    (IsQuantize /\ qres.noise # None /\ QuantS > 0) =>
        LET k == qres.ret.index IN
        /\ k \in 0 .. 2
        /\ NoiseBelowPrefix(k)
        /\ \A j \in 0 .. k - 1 : ~NoiseBelowPrefix(j)
        /\ QuantC[k + 1] > 0
        /\ qres.ret.target = QuantPalette[k + 1]
        /\ \A i \in 1 .. 3 :
              qres.ret.error[1][i] =
                 IF i = k + 1 THEN F32SubS[QuantUnclipped[i], F32One]
                 ELSE QuantUnclipped[i]

====
